---- MODULE Spec2Model ----
(***************************************************************************)
(* Session / signaling orchestration of the conferencing client            *)
(* (src/src/App.jsx): room lifecycle (createRoom / joinRoom), the socket   *)
(* event handlers of the session effect, and createPeer / addPeer.         *)
(*                                                                         *)
(* Every client runs the same code.  A client is named by the identifier   *)
(* of its signaling socket.  RTCPeerConnection objects live in the global  *)
(* sequence conns (the index is the object's identity), so a connection    *)
(* that was overwritten in peersRef is still there to be looked at.        *)
(*                                                                         *)
(* The platform (RTCPeerConnection, getUserMedia) and the relay server are *)
(* the environment.  RTCPeerConnection follows the W3C state machine: its  *)
(* asynchronous operations are run one at a time from the connection's     *)
(* operations chain, each `await` of a handler being one chain step.       *)
(* The server handles a message when it is emitted (it handles the         *)
(* messages in the order the clients emit them) and queues what it sends   *)
(* in the inbox of each recipient, which the recipient handles later.      *)
(***************************************************************************)
EXTENDS Integers, Sequences, FiniteSets, TLC

VARIABLES
    joined,            \* [client -> BOOLEAN]            useState joined
    error,             \* [client -> error kind]         useState error
    localStreamRef,    \* [client -> capture id | 0]     localStreamRef.current
    peersRef,          \* [client -> [id -> conn | 0]]   peersRef.current
    remoteVideos,      \* [client -> [id -> entry]]      useState remoteVideos
    participantCount,  \* [client -> Nat]                useState participantCount
    calls,             \* [client -> Seq(joinRoom call)] suspended joinRoom calls
    conns,             \* Seq(RTCPeerConnection)
    captures,          \* Seq(MediaStream): [owner, live, audio, video]
    media,             \* [client -> [isMuted, isVideoEnabled]]  useState
    midi,              \* the MidiVisualizer component and the shared MIDI handle
    inbox,             \* [client -> Seq(msg)]  server -> client, in order
    rooms,             \* server: the rooms that exist
    members,           \* server: [room -> set of ids]
    online,            \* server: the clients it can reach
    sockets,           \* Seq(socket): the objects made by io(BASE_URL)
    socket,            \* [client -> socket | 0]        useState socket
    timers,            \* [client -> Nat]  pending setTimeout(initializeSocket)
    roomId,            \* [client -> room id]           useState roomId
    roomUrl,           \* [client -> room id]           useState roomUrl
    events,            \* number of environment events (server events, clicks) so far
    last               \* the event handled by the step just taken, [to, msg]

clientVars == <<joined, error, localStreamRef, peersRef, remoteVideos,
                participantCount, calls>>
serverVars == <<rooms, members, online>>
channelVars == <<sockets, socket, timers>>
roomVars == <<roomId, roomUrl>>
vars == <<joined, error, localStreamRef, peersRef, remoteVideos,
          participantCount, calls, conns, captures, media, midi, inbox,
          rooms, members, online, sockets, socket, timers,
          roomId, roomUrl, events, last>>

----------------------------------------------------------------------------
(* Bounds *)

\* signaling events the server sends to Local in the session specification
MaxEvents == 3
\* clicks on Create / Join in the room specification
MaxClicks == 2
\* distinct media streams in the merge specification
MaxStreams == 2
\* clicks and server events in the leave specification
MaxInputs == 3
\* clicks on Create / Join in the capacity specification
MaxJoins == 3

Ids     == {"A", "B", "C"}          \* signaling socket identifiers
IdOrder == <<"A", "B", "C">>
Rooms   == {"r1", "r2"}             \* room identifiers; "" is the empty input
Local   == "A"                      \* the client the session specification follows

NoConn   == 0
NoStream == 0
NoSocket == 0
NoEntry  == [present |-> FALSE, stream |-> NoStream,
             videoActive |-> TRUE, audioActive |-> TRUE]

----------------------------------------------------------------------------
(* Messages.  One record shape for every event; unused fields are blank.   *)
(* sock is the socket a message from the server arrives on; on is the set  *)
(* of participants a snapshot lists as active (users is the set it lists); *)
(* stream is the stream of a track event of the platform.                  *)

Msg(type, peer, tracks, users, room, flag) ==
    [type |-> type, peer |-> peer, tracks |-> tracks, users |-> users,
     room |-> room, flag |-> flag, sock |-> NoSocket, on |-> {},
     stream |-> NoStream]

\* message m, arriving on socket s
On(m, s) == [m EXCEPT !.sock = s]


Plain(type, peer)       == Msg(type, peer, FALSE, {}, "", FALSE)
Sdp(type, peer, tracks) == Msg(type, peer, tracks, {}, "", FALSE)
RoomMsg(type, room)     == Msg(type, "", FALSE, {}, room, FALSE)

\* the step just taken handled event m at client i / handled no event
Handled(i, m) == [to |-> i, msg |-> m]
NoEvent       == [to |-> "", msg |-> Msg("", "", FALSE, {}, "", FALSE)]

\* the array the server sends, in a fixed order
UsersSeq(S) == SelectSeq(IdOrder, LAMBDA u : u \in S)

\* { userId, videoEnabled } / { userId, audioEnabled }
StateChange(type, userId, enabled) == Msg(type, userId, FALSE, {}, "", enabled)

\* the object { id: flag, ... } of initial-video-states / initial-audio-states
Snapshot(type, ids, on) == [Msg(type, "", FALSE, ids, "", FALSE) EXCEPT !.on = on]

\* the track event of the connection to userId
Track(userId, stream) == [Plain("track", userId) EXCEPT !.stream = stream]

----------------------------------------------------------------------------
(* The relay server (environment), after the protocol table of the spec.   *)
(* Its state is st = [rooms, members, inbox, sockets]: of a socket it       *)
(* knows the rooms that socket has joined.                                 *)

RoomCapacity == 2

\* the event under which the server passes a local state change on
RemoteName(type) ==
    IF type = "videoStateChange" THEN "remoteVideoStateChange"
    ELSE "remoteAudioStateChange"

\* the server sends msg to the clients `targets`, on the socket they hold
Deliver(q, targets, msg) ==
    [j \in Ids |-> IF j \in targets /\ j \in online
                   THEN Append(q[j], On(msg, socket[j]))
                   ELSE q[j]]

\* the server answers on socket s
Reply(q, s, msg) == [q EXCEPT ![sockets[s].owner] = Append(@, On(msg, s))]

\* the server sees socket s disconnect: its client leaves the rooms it had
\* joined through s, the members that stay are told, and a room left empty
\* is destroyed
ServerDisconnect(st, s) ==
    LET i     == st.sockets[s].owner
        left  == {r \in st.sockets[s].rooms :
                    ~\E t \in 1..Len(st.sockets) :
                        /\ t # s
                        /\ st.sockets[t].owner = i
                        /\ st.sockets[t].state = "connected"
                        /\ r \in st.sockets[t].rooms}
        stay  == UNION {st.members[r] \ {i} : r \in left}
        empty == {r \in left : st.members[r] \ {i} = {}}
    IN  [st EXCEPT !.members = [r \in Rooms |-> IF r \in left THEN @[r] \ {i}
                                                ELSE @[r]],
                   !.rooms = @ \ empty,
                   !.inbox = Deliver(@, stay, Plain("user-disconnected", i))]

\* the server handles message m that arrived on socket s
ServerHandle(st, s, m) ==
    LET i == st.sockets[s].owner
    IN  CASE m.type = "create-room" ->
               [st EXCEPT !.rooms = @ \cup {m.room}]
          [] m.type = "check-room" ->
               [st EXCEPT !.inbox = Reply(@, s,
                   Msg("room-exists", "", FALSE, {}, "", m.room \in st.rooms))]
          [] m.type = "join-room" ->
               LET others == st.members[m.room] \ {i}
               IN  IF m.room \notin st.rooms
                   THEN [st EXCEPT !.inbox =
                            Reply(@, s, RoomMsg("room-not-found", m.room))]
                   ELSE IF Cardinality(others) >= RoomCapacity
                   THEN [st EXCEPT !.inbox =
                            Reply(@, s, RoomMsg("room-full", m.room))]
                   ELSE [st EXCEPT
                           !.inbox = Deliver(
                               Reply(@, s,
                                   Msg("all-users", "", FALSE, others, "", FALSE)),
                               others, Plain("user-joined", i)),
                           !.members = [@ EXCEPT ![m.room] = @ \cup {i}],
                           !.sockets[s].rooms = @ \cup {m.room}]
          [] m.type \in {"offer", "answer", "ice-candidate"} ->
               [st EXCEPT !.inbox = Deliver(@, {m.peer}, Sdp(m.type, i, m.tracks))]
          [] m.type \in {"videoStateChange", "audioStateChange"} ->
               [st EXCEPT !.inbox =
                   Deliver(@, UNION {st.members[r] \ {i} : r \in st.sockets[s].rooms},
                           StateChange(RemoteName(m.type), i, m.flag))]

RECURSIVE ServerHandleAll(_, _, _)
ServerHandleAll(st, s, msgs) ==
    IF msgs = <<>> THEN st
    ELSE ServerHandleAll(ServerHandle(st, s, Head(msgs)), s, Tail(msgs))

----------------------------------------------------------------------------
(* Sockets (socket.io client, platform).  A socket is "connecting" from    *)
(* io(BASE_URL) until its connect event, then "connected", and "closed"    *)
(* after disconnect(), for good.  What is emitted on a connecting socket   *)
(* waits in its buffer for the connect event; what is emitted on a closed  *)
(* socket is never sent.  w = [rooms, members, inbox, sockets] is what an  *)
(* emission can change.                                                    *)

NewSocket(i) ==
    [owner |-> i, state |-> "connecting", buf |-> <<>>, rooms |-> {}]

World == [rooms |-> rooms, members |-> members, inbox |-> inbox,
          sockets |-> sockets]

\* socket.emit of msgs on socket s
SendOn(w, s, msgs) ==
    IF w.sockets[s].state = "connected"
    THEN ServerHandleAll(w, s, msgs)
    ELSE IF w.sockets[s].state = "connecting"
    THEN [w EXCEPT !.sockets[s].buf = @ \o msgs]
    ELSE w

Commit(w) ==
    /\ rooms' = w.rooms
    /\ members' = w.members
    /\ inbox' = w.inbox
    /\ sockets' = w.sockets

\* a step whose only emission is msgs on socket s; the inbox is q before it
EmitOn(s, msgs, q) == Commit(SendOn([World EXCEPT !.inbox = q], s, msgs))

\* a step that emits nothing
NoEmit(q) == inbox' = q /\ UNCHANGED <<rooms, members, sockets>>

----------------------------------------------------------------------------
(* RTCPeerConnection (platform).                                           *)
(*   sig     signalingState: "stable", "have-local-offer",                 *)
(*           "have-remote-offer", "closed"                                 *)
(*   local   type of the local description:  "none", "offer", "answer"     *)
(*   remoteD type of the remote description: "none", "offer", "answer"     *)
(*   tracks  the local capture was attached by addTrack at construction    *)
(*   chain   the operations chain: pending asynchronous operations         *)
(*   cand    the candidate gathered after the local description was set:   *)
(*           "none", "sent"                                                *)
(*   rcand   a remote candidate has been added                             *)
(*   gotTrack the remote description carried media (ontrack has fired)     *)
(*   offers, answers: how many offers / answers its owner emitted for it   *)
(*   offersIn: how many inbound offers handleOffer handed to it            *)
(*   sock    the socket of the closure that made it: offers and candidates *)
(*           are emitted on it                                             *)
(*   asock   the socket of the handleOffer that last used it: the answer   *)
(*           is emitted on it                                              *)

\* the MidiVisualizer before it is mounted: WebMidiInstance = null, no
\* effect has run, animatedNotesRef.current = []
NoMidi ==
    [mounted |-> FALSE, socket |-> NoSocket, roomId |-> "",
     loaded |-> FALSE, enabled |-> FALSE, listeners |-> {},
     effects |-> <<>>, notes |-> <<>>, sent |-> <<>>,
     ev |-> [kind |-> "", type |-> "", note |-> ""]]

\* a MediaStream of getUserMedia: its tracks are live and enabled
NewCapture(i) == [owner |-> i, live |-> TRUE, audio |-> TRUE, video |-> TRUE]

\* useState(false) of isMuted, useState(true) of isVideoEnabled
NoToggle == [isMuted |-> FALSE, isVideoEnabled |-> TRUE]

Op(op, tracks) == [op |-> op, tracks |-> tracks]

NewPeer(owner, userId, role, stream, chain) ==
    [owner |-> owner, remote |-> userId, role |-> role,
     tracks |-> (stream # NoStream), sig |-> "stable",
     local |-> "none", remoteD |-> "none", chain |-> chain,
     cand |-> "none", rcand |-> FALSE, gotTrack |-> FALSE,
     offers |-> 0, answers |-> 0, offersIn |-> 0,
     sock |-> socket[owner], asock |-> socket[owner]]

\* createPeer: construct, attach the tracks, start the offer chain
createPeer(userId, callerId, stream) ==
    NewPeer(callerId, userId, "createPeer", stream, <<Op("createOffer", FALSE)>>)

\* (mutant) the responder path starts an offer chain of its own
addPeer_offers(userId, callerId, stream) ==
    [createPeer(userId, callerId, stream) EXCEPT !.role = "addPeer"]

\* addPeer: construct and attach the tracks; nothing is sent
addPeer(userId, callerId, stream) ==
    NewPeer(callerId, userId, "addPeer", stream, <<>>)

\* (mutant) close() leaves the connection and its pending operations alone
ClosePeer_lazy(p) == p

\* peer.close()
ClosePeer(p) == [p EXCEPT !.sig = "closed", !.chain = <<>>]

\* an asynchronous method called on p: it joins the operations chain; on a
\* closed connection the call rejects at once and changes nothing
Chain(p, op) == IF p.sig = "closed" THEN p ELSE [p EXCEPT !.chain = @ \o <<op>>]

CloseAt(cs, c) == [cs EXCEPT ![c] = ClosePeer(@)]
ChainAt(cs, c, op) == [cs EXCEPT ![c] = Chain(@, op)]

\* (mutant) ontrack replaces the entry of userId by a new one
OnTrack_overwrite(rv, userId, stream) ==
    [rv EXCEPT ![userId] = [present |-> TRUE, stream |-> stream,
                            videoActive |-> TRUE, audioActive |-> TRUE]]

\* peer.ontrack: merge the inbound stream into the entry of userId
OnTrack(rv, userId, stream) ==
    IF rv[userId].present
    THEN [rv EXCEPT ![userId].stream = stream]
    ELSE [rv EXCEPT ![userId] = [present |-> TRUE, stream |-> stream,
                                 videoActive |-> TRUE, audioActive |-> TRUE]]

\* the coarse state of the state machine of the spec, read off the platform
\* state of a connection
Phase(p) ==
    IF p.sig = "closed" THEN "CLOSED"
    ELSE IF p.sig = "have-local-offer" THEN "OFFER_SENT"
    ELSE IF p.sig = "have-remote-offer" THEN "OFFER_RECEIVED"
    ELSE IF p.local = "none" \/ p.remoteD = "none" THEN "CREATED"
    ELSE IF p.rcand THEN "CONNECTED"
    ELSE IF p.local = "answer" THEN "ANSWER_SENT"
    ELSE "ANSWER_RECEIVED"

\* One step of the operations chain of connection c: the head operation
\* takes effect (or rejects) and the code awaiting it continues.
\*   createOffer  -> .then(offer => peer.setLocalDescription(offer))
\*   SLD_offer    -> .then(() => socket.emit('offer', ...))
\*   SRD_offer    -> handleOffer continues with createAnswer()
\*   createAnswer -> handleOffer continues with setLocalDescription(answer)
\*   SLD_answer   -> handleOffer emits 'answer'
\*   SRD_answer   -> handleAnswer ends
\*   addIce       -> handleIceCandidate ends
\* A rejection is caught and logged by the caller (catch blocks), which is
\* all the caller does with it.
PeerStep(c) ==
    /\ c \in 1..Len(conns)
    /\ conns[c].chain # <<>>
    /\ LET p    == conns[c]
           i    == p.owner
           o    == Head(p.chain)
           rest == [p EXCEPT !.chain = Tail(@)]
           track(q) == /\ remoteVideos' =
                            IF o.tracks /\ ~p.gotTrack
                            THEN [remoteVideos EXCEPT ![i] = OnTrack(@, p.remote, c)]
                            ELSE remoteVideos
                       /\ conns' = [conns EXCEPT ![c] =
                                       [q EXCEPT !.gotTrack = @ \/ o.tracks]]
                       /\ NoEmit(inbox)
           quiet(q) == /\ conns' = [conns EXCEPT ![c] = q]
                       /\ NoEmit(inbox)
                       /\ UNCHANGED remoteVideos
           send(q, s, m) == /\ conns' = [conns EXCEPT ![c] = q]
                            /\ EmitOn(s, <<m>>, inbox)
                            /\ UNCHANGED remoteVideos
       IN  \/ /\ o.op = "createOffer"
              /\ quiet(Chain(rest, Op("SLD_offer", FALSE)))
           \/ /\ o.op = "SLD_offer"
              /\ IF p.sig \in {"stable", "have-local-offer"}
                 THEN send([rest EXCEPT !.sig = "have-local-offer",
                                        !.local = "offer", !.offers = @ + 1],
                           p.sock, Sdp("offer", p.remote, p.tracks))
                 ELSE quiet(rest)
           \/ /\ o.op = "SRD_offer"
              /\ \/ /\ p.sig \in {"stable", "have-remote-offer"}
                    /\ track(Chain([rest EXCEPT !.sig = "have-remote-offer",
                                                !.remoteD = "offer"],
                                   Op("createAnswer", FALSE)))
                 \* glare: the build either rolls the local offer back
                 \* (implicit rollback) or rejects with InvalidStateError
                 \/ /\ p.sig = "have-local-offer"
                    /\ track(Chain([rest EXCEPT !.sig = "have-remote-offer",
                                                !.local = "none",
                                                !.remoteD = "offer"],
                                   Op("createAnswer", FALSE)))
                 \/ /\ p.sig = "have-local-offer"
                    /\ quiet(rest)
           \/ /\ o.op = "createAnswer"
              /\ IF p.sig = "have-remote-offer"
                 THEN quiet(Chain(rest, Op("SLD_answer", FALSE)))
                 ELSE quiet(rest)
           \/ /\ o.op = "SLD_answer"
              /\ IF p.sig = "have-remote-offer"
                 THEN send([rest EXCEPT !.sig = "stable",
                                        !.local = "answer", !.answers = @ + 1],
                           p.asock,
                           Sdp("answer", p.remote, p.tracks /\ p.gotTrack))
                 ELSE quiet(rest)
           \/ /\ o.op = "SRD_answer"
              /\ IF p.sig = "have-local-offer"
                 THEN track([rest EXCEPT !.sig = "stable", !.remoteD = "answer"])
                 ELSE quiet(rest)
           \/ /\ o.op = "addIce"
              /\ IF p.remoteD # "none"
                 THEN quiet([rest EXCEPT !.rcand = TRUE])
                 ELSE quiet(rest)
    /\ last' = NoEvent
    /\ UNCHANGED <<joined, error, localStreamRef, peersRef, participantCount,
                   calls, captures, media, midi, online, socket, timers, roomVars, events>>

\* peer.onicecandidate: a candidate gathered after the local description
\* was set is forwarded to the remote participant
IceCandidate(c) ==
    /\ c \in 1..Len(conns)
    /\ conns[c].sig # "closed"
    /\ conns[c].local # "none"
    /\ conns[c].cand = "none"
    /\ conns' = [conns EXCEPT ![c].cand = "sent"]
    /\ EmitOn(conns[c].sock, <<Plain("ice-candidate", conns[c].remote)>>, inbox)
    /\ last' = NoEvent
    /\ UNCHANGED <<clientVars, captures, media, midi, online, socket, timers, roomVars,
                   events>>

----------------------------------------------------------------------------
(* Socket event handlers of the session effect.  handleX(i, m) is what     *)
(* client i does with event m, up to the handler's first await: one step.  *)
(* No handler emits in its synchronous part.                               *)

\* position of u in the users array
UserPos(us, u) == CHOOSE k \in 1..Len(us) : us[k] = u

\* users.forEach(userId => peersRef.current[userId] = createPeer(...))
AllUsersPeers(pr, users, base) ==
    [u \in Ids |-> IF u \in users THEN base + UserPos(UsersSeq(users), u) ELSE pr[u]]

handleAllUsers(i, m) ==
    /\ m.type = "all-users"
    /\ LET us == UsersSeq(m.users)
       IN  /\ participantCount' = [participantCount EXCEPT ![i] = Len(us) + 1]
           /\ conns' = conns \o [k \in 1..Len(us) |->
                                    createPeer(us[k], i, localStreamRef[i])]
           /\ peersRef' = [peersRef EXCEPT ![i] = AllUsersPeers(@, m.users, Len(conns))]
    /\ UNCHANGED <<joined, error, localStreamRef, remoteVideos, calls, captures, media, midi>>

handleUserJoined(i, m) ==
    /\ m.type = "user-joined"
    /\ LET userId == m.peer
       IN  IF userId = i
           THEN UNCHANGED <<participantCount, conns, peersRef>>
           ELSE /\ participantCount' = [participantCount EXCEPT ![i] = @ + 1]
                /\ conns' = Append(conns, addPeer(userId, i, localStreamRef[i]))
                /\ peersRef' = [peersRef EXCEPT ![i][userId] = Len(conns) + 1]
    /\ UNCHANGED <<joined, error, localStreamRef, remoteVideos, calls, captures, media, midi>>

\* let peer = peersRef.current[caller]; if (!peer) { peer = addPeer(...) }:
\* TRUE when handleOffer has to create the connection
OfferNeedsPeer(pr, caller) == pr[caller] = NoConn

\* what handleOffer does with the connection it found or made: it calls
\* setRemoteDescription, whatever state the connection is in
OfferApply(p, tracks) ==
    [Chain(p, Op("SRD_offer", tracks)) EXCEPT !.offersIn = @ + 1]

\* (mutant) handleOffer drops an offer from a participant it has no
\* connection for
handleOffer_drops(i, m) ==
    /\ m.type = "offer"
    /\ LET c == peersRef[i][m.peer]
       IN  conns' = IF c # NoConn
                    THEN [conns EXCEPT ![c] =
                            [OfferApply(@, m.tracks) EXCEPT !.asock = socket[i]]]
                    ELSE conns
    /\ UNCHANGED <<clientVars, captures, media, midi>>

handleOffer(i, m) ==
    /\ m.type = "offer"
    /\ LET caller == m.peer
           fresh  == OfferNeedsPeer(peersRef[i], caller)
           c      == IF fresh THEN Len(conns) + 1 ELSE peersRef[i][caller]
           cs     == IF fresh
                     THEN Append(conns, addPeer(caller, i, localStreamRef[i]))
                     ELSE conns
       IN  /\ peersRef' = [peersRef EXCEPT ![i][caller] = c]
           /\ conns' = [cs EXCEPT ![c] =
                            [OfferApply(@, m.tracks) EXCEPT !.asock = socket[i]]]
    /\ UNCHANGED <<joined, error, localStreamRef, remoteVideos,
                   participantCount, calls, captures, media, midi>>

\* (mutant) handleAnswer does not apply the answer
AnswerApply_drop(p, tracks) == p

\* if (peer) await peer.setRemoteDescription(...)
AnswerApply(p, tracks) == Chain(p, Op("SRD_answer", tracks))

handleAnswer(i, m) ==
    /\ m.type = "answer"
    /\ LET c == peersRef[i][m.peer]
       IN  conns' = IF c # NoConn
                    THEN [conns EXCEPT ![c] = AnswerApply(@, m.tracks)]
                    ELSE conns
    /\ UNCHANGED <<clientVars, captures, media, midi>>

\* (mutant) a candidate from a participant without a connection makes one
handleIceCandidate_adds(i, m) ==
    /\ m.type = "ice-candidate"
    /\ LET c == peersRef[i][m.peer]
       IN  IF c # NoConn
           THEN /\ conns' = ChainAt(conns, c, Op("addIce", FALSE))
                /\ UNCHANGED peersRef
           ELSE /\ conns' = Append(conns, addPeer(m.peer, i, localStreamRef[i]))
                /\ peersRef' = [peersRef EXCEPT ![i][m.peer] = Len(conns) + 1]
    /\ UNCHANGED <<joined, error, localStreamRef, remoteVideos,
                   participantCount, calls, captures, media, midi>>

\* if (peer && candidate) await peer.addIceCandidate(...)
handleIceCandidate(i, m) ==
    /\ m.type = "ice-candidate"
    /\ LET c == peersRef[i][m.peer]
       IN  conns' = IF c # NoConn
                    THEN ChainAt(conns, c, Op("addIce", FALSE))
                    ELSE conns
    /\ UNCHANGED <<clientVars, captures, media, midi>>

Max(a, b) == IF a > b THEN a ELSE b

\* (mutant) user-disconnected closes the connection and leaves it in the
\* peer map
handleUserDisconnected_keeps(i, m) ==
    /\ m.type = "user-disconnected"
    /\ LET userId == m.peer
           c      == peersRef[i][userId]
       IN  IF c # NoConn
           THEN /\ conns' = CloseAt(conns, c)
                /\ remoteVideos' = [remoteVideos EXCEPT ![i][userId] = NoEntry]
                /\ participantCount' =
                      [participantCount EXCEPT ![i] = Max(1, @ - 1)]
                /\ UNCHANGED peersRef
           ELSE UNCHANGED <<conns, peersRef, remoteVideos, participantCount>>
    /\ UNCHANGED <<joined, error, localStreamRef, calls, captures, media, midi>>

handleUserDisconnected(i, m) ==
    /\ m.type = "user-disconnected"
    /\ LET userId == m.peer
           c      == peersRef[i][userId]
       IN  IF c # NoConn
           THEN /\ conns' = CloseAt(conns, c)
                /\ peersRef' = [peersRef EXCEPT ![i][userId] = NoConn]
                /\ remoteVideos' = [remoteVideos EXCEPT ![i][userId] = NoEntry]
                /\ participantCount' =
                      [participantCount EXCEPT ![i] = Max(1, @ - 1)]
           ELSE UNCHANGED <<conns, peersRef, remoteVideos, participantCount>>
    /\ UNCHANGED <<joined, error, localStreamRef, calls, captures, media, midi>>

handleRoomNotFound(i, m) ==
    /\ m.type = "room-not-found"
    /\ error' = [error EXCEPT ![i] = "RoomNotFound"]
    /\ UNCHANGED <<joined, localStreamRef, peersRef, remoteVideos,
                   participantCount, calls, conns, captures, media, midi>>

\* (mutant) room-full is not shown
handleRoomFull_silent(i, m) ==
    /\ m.type = "room-full"
    /\ UNCHANGED <<joined, error, localStreamRef, peersRef, remoteVideos,
                   participantCount, calls, conns, captures, media, midi>>

handleRoomFull(i, m) ==
    /\ m.type = "room-full"
    /\ error' = [error EXCEPT ![i] = "RoomFull"]
    /\ UNCHANGED <<joined, localStreamRef, peersRef, remoteVideos,
                   participantCount, calls, conns, captures, media, midi>>

\* what the activity handlers leave alone
FlagFrame ==
    UNCHANGED <<joined, error, localStreamRef, peersRef, participantCount,
                calls, conns, captures, media, midi>>

\* (mutant) initial-video-states writes a new entry for every listed
\* participant
InitialVideoStates_overwrite(rv, ids, on) ==
    [u \in Ids |->
        IF u \notin ids THEN rv[u]
        ELSE [present |-> TRUE, stream |-> NoStream,
              videoActive |-> u \in on, audioActive |-> TRUE]]

\* initial-video-states: the listed participants that have an entry get
\* their video flag; the others get an entry with no stream
InitialVideoStates(rv, ids, on) ==
    [u \in Ids |->
        IF u \notin ids THEN rv[u]
        ELSE IF rv[u].present THEN [rv[u] EXCEPT !.videoActive = u \in on]
        ELSE [present |-> TRUE, stream |-> NoStream,
              videoActive |-> u \in on, audioActive |-> TRUE]]

handleInitialVideoStates(i, m) ==
    /\ m.type = "initial-video-states"
    /\ remoteVideos' = [remoteVideos EXCEPT ![i] = InitialVideoStates(@, m.users, m.on)]
    /\ FlagFrame

\* initial-audio-states: the listed participants that have an entry get
\* their audio flag; no entry is made
InitialAudioStates(rv, ids, on) ==
    [u \in Ids |->
        IF u \in ids /\ rv[u].present
        THEN [rv[u] EXCEPT !.audioActive = u \in on]
        ELSE rv[u]]

handleInitialAudioStates(i, m) ==
    /\ m.type = "initial-audio-states"
    /\ remoteVideos' = [remoteVideos EXCEPT ![i] = InitialAudioStates(@, m.users, m.on)]
    /\ FlagFrame

\* (mutant) the video state change rewrites the entry, which loses its
\* audio flag
RemoteVideoState_rewrites(rv, userId, videoEnabled) ==
    IF rv[userId].present
    THEN [rv EXCEPT ![userId].videoActive = videoEnabled,
                    ![userId].audioActive = TRUE]
    ELSE rv

\* prev.map(v => v.id === userId ? {...v, videoActive: videoEnabled} : v)
RemoteVideoState(rv, userId, videoEnabled) ==
    IF rv[userId].present
    THEN [rv EXCEPT ![userId].videoActive = videoEnabled]
    ELSE rv

handleRemoteVideoStateChange(i, m) ==
    /\ m.type = "remoteVideoStateChange"
    /\ remoteVideos' = [remoteVideos EXCEPT ![i] = RemoteVideoState(@, m.peer, m.flag)]
    /\ FlagFrame

\* prev.map(v => v.id === userId ? {...v, audioActive: audioEnabled} : v)
RemoteAudioState(rv, userId, audioEnabled) ==
    IF rv[userId].present
    THEN [rv EXCEPT ![userId].audioActive = audioEnabled]
    ELSE rv

handleRemoteAudioStateChange(i, m) ==
    /\ m.type = "remoteAudioStateChange"
    /\ remoteVideos' = [remoteVideos EXCEPT ![i] = RemoteAudioState(@, m.peer, m.flag)]
    /\ FlagFrame

\* peer.ontrack of the connection of i to userId fires with `stream`
handleTrack(i, m) ==
    /\ m.type = "track"
    /\ peersRef[i][m.peer] # NoConn
    /\ remoteVideos' = [remoteVideos EXCEPT ![i] = OnTrack(@, m.peer, m.stream)]
    /\ FlagFrame

----------------------------------------------------------------------------
(* Room lifecycle: createRoom / joinRoom.  A suspended call is a record    *)
(* [room, pc, sock, wait, create]: sock is the socket of its closure, the  *)
(* one it emits and subscribes on.                                         *)
(*   pc = "connect"  it awaits the connect event of socket `wait`, which   *)
(*                   it made itself; create tells a createRoom call        *)
(*   pc = "exists"   it awaits the room-exists reply on its socket.once    *)
(*                   subscription                                          *)
(*   pc = "media"    it awaits getUserMedia                                *)
(* f = [w, calls, error, socket, roomId, roomUrl] is what a call of client *)
(* i can change before its getUserMedia: the world of its emissions and    *)
(* the state of i.                                                         *)

Call(room, pc, sock) ==
    [room |-> room, pc |-> pc, sock |-> sock, wait |-> NoSocket,
     create |-> FALSE]

Waiting(room, sock, wait, create) ==
    [room |-> room, pc |-> "connect", sock |-> sock, wait |-> wait,
     create |-> create]

Flow(i) ==
    [w |-> World, calls |-> calls[i], error |-> error[i],
     socket |-> socket[i], roomId |-> roomId[i], roomUrl |-> roomUrl[i]]

Apply(f, i) ==
    /\ Commit(f.w)
    /\ calls' = [calls EXCEPT ![i] = f.calls]
    /\ error' = [error EXCEPT ![i] = f.error]
    /\ socket' = [socket EXCEPT ![i] = f.socket]
    /\ roomId' = [roomId EXCEPT ![i] = f.roomId]
    /\ roomUrl' = [roomUrl EXCEPT ![i] = f.roomUrl]

\* initializeSocket: the callback is memoised with [BASE_URL] as its only
\* dependency, so the `socket` it tests is the null of the first render and
\* it never disconnects the socket in use: it makes a socket, stores it and
\* returns it (f.socket afterwards)
initializeSocket(f, i) ==
    [f EXCEPT !.w.sockets = Append(@, NewSocket(i)),
              !.socket = Len(f.w.sockets) + 1]

\* socket && socket.connected
Connected(ss, s) == s # NoSocket /\ ss[s].state = "connected"

\* (mutant) joinRoom without the check of its argument
ValidRoomId_any(idToJoin) == TRUE

\* if (!idToJoin) { setError('Please enter a Room ID'); return; }
ValidRoomId(idToJoin) == idToJoin # ""

\* joinRoom from setError('') to its await of the reply: emit check-room
\* and subscribe once to room-exists, both on the socket of its closure
JoinRoomCheck(f, idToJoin, sk) ==
    [f EXCEPT !.error = "",
              !.w = SendOn(@, sk, <<RoomMsg("check-room", idToJoin)>>),
              !.calls = Append(@, Call(idToJoin, "exists", sk))]

\* joinRoom up to its first await.  When its socket is not connected it
\* makes a new one and awaits the connect event of that one.
JoinRoomStart(f, i, idToJoin, sk) ==
    IF ~ValidRoomId(idToJoin)
    THEN [f EXCEPT !.error = "InvalidInput"]
    ELSE IF ~Connected(f.w.sockets, sk)
    THEN LET g == initializeSocket(f, i)
         IN  [g EXCEPT !.calls = Append(@, Waiting(idToJoin, sk, g.socket, FALSE))]
    ELSE JoinRoomCheck(f, idToJoin, sk)

\* (mutant) createRoom calls joinRoom first and emits create-room after it
CreateRoomRest_late(f, i, newRoomId, sk) ==
    LET g == JoinRoomStart(
                 [f EXCEPT !.error = "", !.roomId = newRoomId,
                           !.roomUrl = newRoomId],
                 i, newRoomId, sk)
    IN  [g EXCEPT !.w = SendOn(@, sk, <<RoomMsg("create-room", newRoomId)>>)]

\* createRoom after its reconnect: clear the error, store the generated
\* identifier and the join URL, emit create-room, call joinRoom
CreateRoomRest(f, i, newRoomId, sk) ==
    JoinRoomStart(
        [f EXCEPT !.error = "", !.roomId = newRoomId, !.roomUrl = newRoomId,
                  !.w = SendOn(@, sk, <<RoomMsg("create-room", newRoomId)>>)],
        i, newRoomId, sk)

\* createRoom up to its first await
CreateRoomStart(f, i, newRoomId, sk) ==
    IF ~Connected(f.w.sockets, sk)
    THEN LET g == initializeSocket(f, i)
         IN  [g EXCEPT !.calls = Append(@, Waiting(newRoomId, sk, g.socket, TRUE))]
    ELSE CreateRoomRest(f, i, newRoomId, sk)

\* the user clicks Join with idToJoin in the input field (which is roomId)
joinRoom(i, idToJoin) ==
    /\ Apply(JoinRoomStart([Flow(i) EXCEPT !.roomId = idToJoin],
                           i, idToJoin, socket[i]), i)
    /\ last' = Handled(i, RoomMsg("click-join", idToJoin))
    /\ UNCHANGED <<joined, localStreamRef, peersRef, remoteVideos,
                   participantCount, conns, captures, media, midi, online, timers>>

\* the user clicks Create: newRoomId is the generated identifier
createRoom(i, newRoomId) ==
    /\ Apply(CreateRoomStart(Flow(i), i, newRoomId, socket[i]), i)
    /\ last' = Handled(i, RoomMsg("click-create", newRoomId))
    /\ UNCHANGED <<joined, localStreamRef, peersRef, remoteVideos,
                   participantCount, conns, captures, media, midi, online, timers>>

RemoveAt(sq, k) == SubSeq(sq, 1, k - 1) \o SubSeq(sq, k + 1, Len(sq))

\* the calls of cs that await the connect event of socket s
ConnectWaiters(cs, s) ==
    {k \in 1..Len(cs) : cs[k].pc = "connect" /\ cs[k].wait = s}

\* the connect event of socket s: what was emitted meanwhile is sent, the
\* connect handler of initializeSocket clears the error, and the call that
\* awaits the event goes on
Connect(s) ==
    /\ s \in 1..Len(sockets)
    /\ sockets[s].state = "connecting"
    /\ LET i  == sockets[s].owner
           ws == [sockets EXCEPT ![s].state = "connected", ![s].buf = <<>>]
           f0 == [Flow(i) EXCEPT
                    !.w = SendOn([World EXCEPT !.sockets = ws], s, sockets[s].buf),
                    !.error = ""]
           ks == ConnectWaiters(calls[i], s)
       IN  IF ks = {}
           THEN Apply(f0, i)
           ELSE LET k == CHOOSE x \in ks : TRUE
                    c == calls[i][k]
                    g == [f0 EXCEPT !.calls = RemoveAt(@, k)]
                IN  IF c.create
                    THEN Apply(CreateRoomRest(g, i, c.room, c.sock), i)
                    ELSE Apply(JoinRoomCheck(g, c.room, c.sock), i)
    /\ last' = NoEvent
    /\ UNCHANGED <<joined, localStreamRef, peersRef, remoteVideos,
                   participantCount, conns, captures, media, midi, online, timers, events>>

\* socket.once('room-exists', ({exists}) => resolve(exists)): the event is
\* given to every subscription registered at that time, and each awaiting
\* call continues with its payload
ExistsListeners(cs) == {k \in 1..Len(cs) : cs[k].pc = "exists"}

\* (mutant) a resolved call goes on to getUserMedia whatever the reply says
AfterExists_proceed(cs, exists) ==
    [k \in 1..Len(cs) |->
        IF cs[k].pc = "exists" THEN Call(cs[k].room, "media", cs[k].sock)
        ELSE cs[k]]

\* a call that was resolved with `exists`: it goes on to getUserMedia, or
\* it ends with the room-not-found error
AfterExists(cs, exists) ==
    IF exists
    THEN [k \in 1..Len(cs) |->
             IF cs[k].pc = "exists" THEN Call(cs[k].room, "media", cs[k].sock)
             ELSE cs[k]]
    ELSE SelectSeq(cs, LAMBDA x : x.pc # "exists")

\* the calls of cs whose closure holds socket s, and the others
OnSocket(cs, s) == SelectSeq(cs, LAMBDA x : x.sock = s)
OffSocket(cs, s) == SelectSeq(cs, LAMBDA x : x.sock # s)

\* the room-exists event arrives on socket m.sock: the subscriptions made
\* on that socket get it
handleRoomExists(i, m) ==
    /\ m.type = "room-exists"
    /\ calls' = [calls EXCEPT ![i] =
                    OffSocket(@, m.sock) \o AfterExists(OnSocket(@, m.sock), m.flag)]
    /\ error' = IF ~m.flag /\ ExistsListeners(OnSocket(calls[i], m.sock)) # {}
                THEN [error EXCEPT ![i] = "RoomNotFound"]
                ELSE error
    /\ UNCHANGED <<joined, localStreamRef, peersRef, remoteVideos,
                   participantCount, conns, captures, media, midi>>

\* (mutant) getMediaStream stores the enabled state of the audio track as
\* the mute flag
StreamFlags_enabled(stream) ==
    [isMuted |-> stream.audio, isVideoEnabled |-> stream.video]

\* getMediaStream: setIsVideoEnabled(videoTracks[0].enabled) and
\* setIsMuted(!audioTracks[0].enabled)
StreamFlags(stream) ==
    [isMuted |-> ~stream.audio, isVideoEnabled |-> stream.video]

\* what joinRoom emits once it holds a stream
JoinEmit(room) == <<RoomMsg("join-room", room)>>

\* getUserMedia resolves for call k: getMediaStream stores the stream and
\* joinRoom emits join-room and sets joined
MediaGranted(i, k) ==
    /\ k \in 1..Len(calls[i])
    /\ calls[i][k].pc = "media"
    /\ captures' = Append(captures, NewCapture(i))
    /\ media' = [media EXCEPT ![i] = StreamFlags(NewCapture(i))]
    /\ midi' = midi
    /\ localStreamRef' = [localStreamRef EXCEPT ![i] = Len(captures) + 1]
    /\ EmitOn(calls[i][k].sock, JoinEmit(calls[i][k].room), inbox)
    /\ joined' = [joined EXCEPT ![i] = TRUE]
    /\ calls' = [calls EXCEPT ![i] = RemoveAt(@, k)]
    /\ last' = Handled(i, RoomMsg("media-granted", calls[i][k].room))
    /\ UNCHANGED <<error, peersRef, remoteVideos, participantCount, conns,
                   online, socket, timers, roomVars, events>>

\* (mutant) joinRoom goes on to join after getMediaStream returned null
MediaDenied_joins(i, k) ==
    /\ k \in 1..Len(calls[i])
    /\ calls[i][k].pc = "media"
    /\ error' = [error EXCEPT ![i] = "MediaAccessDenied"]
    /\ calls' = [calls EXCEPT ![i] = RemoveAt(@, k)]
    /\ last' = Handled(i, RoomMsg("media-denied", calls[i][k].room))
    /\ EmitOn(calls[i][k].sock, JoinEmit(calls[i][k].room), inbox)
    /\ joined' = [joined EXCEPT ![i] = TRUE]
    /\ UNCHANGED <<localStreamRef, peersRef, remoteVideos,
                   participantCount, conns, captures, media, midi, online, socket, timers,
                   roomVars, events>>

\* getUserMedia rejects for call k: getMediaStream returns null and joinRoom
\* sets the error and returns
MediaDenied(i, k) ==
    /\ k \in 1..Len(calls[i])
    /\ calls[i][k].pc = "media"
    /\ error' = [error EXCEPT ![i] = "MediaAccessDenied"]
    /\ calls' = [calls EXCEPT ![i] = RemoveAt(@, k)]
    /\ last' = Handled(i, RoomMsg("media-denied", calls[i][k].room))
    /\ NoEmit(inbox)
    /\ UNCHANGED <<joined, localStreamRef, peersRef, remoteVideos,
                   participantCount, conns, captures, media, midi, online, socket, timers,
                   roomVars, events>>

\* the connections the peer map of client i holds
Stored(pr) == {pr[u] : u \in Ids} \ {NoConn}

\* socket.disconnect() on socket s of client i: the socket closes for good,
\* what the server had sent on it is not delivered, the server sees it go
Disconnect(w, i, s) ==
    ServerDisconnect(
        [w EXCEPT !.sockets[s].state = "closed",
                  !.inbox[i] = SelectSeq(@, LAMBDA m : m.sock # s)], s)

\* leaveRoom: stop and drop the capture, close what the peer map holds and
\* empty it, reset the state, disconnect the socket if it is connected and
\* schedule initializeSocket
leaveRoom(i) ==
    /\ captures' = IF localStreamRef[i] # NoStream
                   THEN [captures EXCEPT ![localStreamRef[i]].live = FALSE]
                   ELSE captures
    /\ localStreamRef' = [localStreamRef EXCEPT ![i] = NoStream]
    /\ conns' = [c \in 1..Len(conns) |->
                    IF c \in Stored(peersRef[i]) THEN ClosePeer(conns[c])
                    ELSE conns[c]]
    /\ peersRef' = [peersRef EXCEPT ![i] = [u \in Ids |-> NoConn]]
    /\ remoteVideos' = [remoteVideos EXCEPT ![i] = [u \in Ids |-> NoEntry]]
    /\ joined' = [joined EXCEPT ![i] = FALSE]
    /\ roomId' = [roomId EXCEPT ![i] = ""]
    /\ roomUrl' = [roomUrl EXCEPT ![i] = ""]
    /\ error' = [error EXCEPT ![i] = ""]
    /\ participantCount' = [participantCount EXCEPT ![i] = 1]
    /\ IF Connected(sockets, socket[i])
       THEN Commit(Disconnect(World, i, socket[i]))
       ELSE NoEmit(inbox)
    /\ timers' = [timers EXCEPT ![i] = @ + 1]
    /\ last' = Handled(i, RoomMsg("click-leave", ""))
    /\ UNCHANGED <<calls, socket, online, media, midi>>

\* setTimeout(() => initializeSocket(), 100) fires
Timer(i) ==
    /\ timers[i] > 0
    /\ timers' = [timers EXCEPT ![i] = @ - 1]
    /\ Apply(initializeSocket(Flow(i), i), i)
    /\ last' = NoEvent
    /\ UNCHANGED <<joined, localStreamRef, peersRef, remoteVideos,
                   participantCount, conns, captures, media, midi, online, events>>

----------------------------------------------------------------------------
(* Media controls: toggleMute / toggleVideo.  Each is a click handler of   *)
(* the session screen; it runs with the state of the render it was made    *)
(* in, and the render that follows a click is done before the next click   *)
(* is handled.                                                             *)

\* socket.emit('audioStateChange' | 'videoStateChange', {enabled})
LocalState(type, enabled) == Msg(type, "", FALSE, {}, "", enabled)

\* if (socket && joined) socket.emit(...)
ToggleEmit(i, type, enabled) ==
    IF socket[i] # NoSocket /\ joined[i]
    THEN EmitOn(socket[i], <<LocalState(type, enabled)>>, inbox)
    ELSE NoEmit(inbox)

\* (mutant) toggleMute announces the mute state instead of the enabled
\* state of the audio tracks
MuteAnnounced_muted(newMuteState) == newMuteState

\* the value toggleMute announces: { audioEnabled: !newMuteState }
MuteAnnounced(newMuteState) == ~newMuteState

toggleMute(i) ==
    /\ IF localStreamRef[i] # NoStream
       THEN LET newMuteState == ~media[i].isMuted
            IN  /\ captures' = [captures EXCEPT
                                  ![localStreamRef[i]].audio = ~newMuteState]
                /\ media' = [media EXCEPT ![i].isMuted = newMuteState]
                /\ ToggleEmit(i, "audioStateChange", MuteAnnounced(newMuteState))
       ELSE /\ UNCHANGED <<captures, media, midi>>
            /\ NoEmit(inbox)
    /\ last' = Handled(i, RoomMsg("click-mute", ""))
    /\ UNCHANGED <<midi, clientVars, conns, online, socket, timers, roomVars>>

\* (mutant) toggleVideo turns the camera off and never on again
NewVideoState_off(isVideoEnabled) == FALSE

\* const newVideoState = !isVideoEnabled
NewVideoState(isVideoEnabled) == ~isVideoEnabled

\* (mutant) toggleVideo renegotiates every connection of the peer map
ReplaceTrack_renegotiates(cs, pr) ==
    [c \in 1..Len(cs) |->
        IF c \in Stored(pr) THEN Chain(cs[c], Op("createOffer", FALSE))
        ELSE cs[c]]

\* sender.replaceTrack(videoTracks[0]) on the video sender of every
\* connection of the peer map: the sender gets the track it already sends,
\* and replaceTrack never renegotiates
ReplaceTrack(cs, pr) == cs

toggleVideo(i) ==
    /\ IF localStreamRef[i] # NoStream
       THEN LET newVideoState == NewVideoState(media[i].isVideoEnabled)
            IN  /\ captures' = [captures EXCEPT
                                  ![localStreamRef[i]].video = newVideoState]
                /\ media' = [media EXCEPT ![i].isVideoEnabled = newVideoState]
                /\ conns' = ReplaceTrack(conns, peersRef[i])
                /\ ToggleEmit(i, "videoStateChange", newVideoState)
       ELSE /\ UNCHANGED <<captures, media, midi, conns>>
            /\ NoEmit(inbox)
    /\ last' = Handled(i, RoomMsg("click-video", ""))
    /\ UNCHANGED <<midi, clientVars, online, socket, timers, roomVars>>

----------------------------------------------------------------------------
(* Specifications *)

\* the sockets made by the mount effects: the clients of S have connected
MountSockets(S) ==
    [k \in 1..Len(IdOrder) |->
        [NewSocket(IdOrder[k]) EXCEPT
            !.state = IF IdOrder[k] \in S THEN "connected" ELSE "closed"]]

Fresh(S) ==
    /\ joined = [i \in Ids |-> FALSE]
    /\ error = [i \in Ids |-> ""]
    /\ localStreamRef = [i \in Ids |-> NoStream]
    /\ peersRef = [i \in Ids |-> [u \in Ids |-> NoConn]]
    /\ remoteVideos = [i \in Ids |-> [u \in Ids |-> NoEntry]]
    /\ participantCount = [i \in Ids |-> 1]
    /\ calls = [i \in Ids |-> <<>>]
    /\ conns = <<>>
    /\ captures = <<>>
    /\ media = [i \in Ids |-> NoToggle]
    /\ midi = NoMidi
    /\ inbox = [i \in Ids |-> <<>>]
    /\ rooms = {}
    /\ members = [r \in Rooms |-> {}]
    /\ online = S
    /\ sockets = MountSockets(S)
    /\ socket = [i \in Ids |-> UserPos(IdOrder, i)]
    /\ timers = [i \in Ids |-> 0]
    /\ roomId = [i \in Ids |-> ""]
    /\ roomUrl = [i \in Ids |-> ""]
    /\ events = 0
    /\ last = NoEvent

\* Session specification: Local has created and joined room r1 and holds
\* its capture; the server then sends it signaling events in any order and
\* multiplicity.  The other participants are connected sockets whose
\* clients are not followed: what Local sends them stays in their inbox.
\* Their descriptions carry media: a client joins only with a capture.
Init ==
    /\ joined = [i \in Ids |-> i = Local]
    /\ error = [i \in Ids |-> ""]
    /\ localStreamRef = [i \in Ids |-> IF i = Local THEN 1 ELSE NoStream]
    /\ peersRef = [i \in Ids |-> [u \in Ids |-> NoConn]]
    /\ remoteVideos = [i \in Ids |-> [u \in Ids |-> NoEntry]]
    /\ participantCount = [i \in Ids |-> 1]
    /\ calls = [i \in Ids |-> <<>>]
    /\ conns = <<>>
    /\ captures = <<NewCapture(Local)>>
    /\ media = [i \in Ids |-> NoToggle]
    /\ midi = NoMidi
    /\ inbox = [i \in Ids |-> <<>>]
    /\ rooms = {"r1"}
    /\ members = [r \in Rooms |-> IF r = "r1" THEN {Local} ELSE {}]
    /\ online = Ids
    /\ sockets = [MountSockets(Ids) EXCEPT ![UserPos(IdOrder, Local)].rooms = {"r1"}]
    /\ socket = [i \in Ids |-> UserPos(IdOrder, i)]
    /\ timers = [i \in Ids |-> 0]
    /\ roomId = [i \in Ids |-> IF i = Local THEN "r1" ELSE ""]
    /\ roomUrl = [i \in Ids |-> IF i = Local THEN "r1" ELSE ""]
    /\ events = 0
    /\ last = NoEvent

Remote == Ids \ {Local}

SessionEvents ==
    {Msg("all-users", "", FALSE, S, "", FALSE) : S \in SUBSET Remote}
    \cup {Plain("user-joined", u) : u \in Ids}
    \cup {Plain("user-disconnected", u) : u \in Remote}
    \cup {Plain("ice-candidate", u) : u \in Remote}
    \cup {Sdp(t, u, TRUE) : t \in {"offer", "answer"}, u \in Remote}

\* The session effect registers its handlers on the socket in the state
\* and takes them off the socket it replaces; the room-exists subscriptions
\* stay on the socket they were made on.
Registered(i, m) == m.type = "room-exists" \/ m.sock = socket[i]

\* socket.on(event, H): client i takes the next event of its inbox
Recv(i, H(_, _)) ==
    /\ inbox[i] # <<>>
    /\ Registered(i, Head(inbox[i]))
    /\ H(i, Head(inbox[i]))
    /\ NoEmit([inbox EXCEPT ![i] = Tail(@)])
    /\ last' = Handled(i, Head(inbox[i]))
    /\ UNCHANGED <<online, socket, timers, roomVars, events>>

\* the server sends Local a signaling event, which Local handles
FromServer(H(_, _)) ==
    /\ events < MaxEvents
    /\ events' = events + 1
    /\ \E m \in SessionEvents : H(Local, m) /\ last' = Handled(Local, m)
    /\ NoEmit(inbox)
    /\ UNCHANGED <<online, socket, timers, roomVars>>

Next ==
    \/ FromServer(handleAllUsers)
    \/ FromServer(handleUserJoined)
    \/ FromServer(handleOffer)
    \/ FromServer(handleAnswer)
    \/ FromServer(handleIceCandidate)
    \/ FromServer(handleUserDisconnected)
    \/ \E c \in 1..Len(conns) : PeerStep(c)

Spec == Init /\ [][Next]_vars

\* Room specification: clients A and B, both connected to the relay, create
\* and join rooms as their users click; getUserMedia grants or denies.
\* Candidates are not gathered here (they are in the flow specification):
\* the room lifecycle does not depend on them.
Users == {"A", "B"}

RoomInit == Fresh(Users)

\* at most one suspended joinRoom call per click
MaxCalls == MaxClicks

\* a click of user i on the entry screen, which is shown while !joined
Click(i, A) == ~joined[i] /\ events < MaxClicks /\ events' = events + 1 /\ A

RoomNext ==
    \/ \E i \in Users, r \in Rooms : Click(i, createRoom(i, r))
    \/ \E i \in Users, id \in Rooms \cup {""} : Click(i, joinRoom(i, id))
    \/ \E i \in Users, k \in 1..MaxCalls : MediaGranted(i, k)
    \/ \E i \in Users, k \in 1..MaxCalls : MediaDenied(i, k)
    \/ \E i \in Users : Recv(i, handleRoomExists)
    \/ \E i \in Users : Recv(i, handleRoomNotFound)
    \/ \E i \in Users : Recv(i, handleAllUsers)
    \/ \E i \in Users : Recv(i, handleUserJoined)
    \/ \E i \in Users : Recv(i, handleOffer)
    \/ \E i \in Users : Recv(i, handleAnswer)
    \/ \E c \in 1..Len(conns) : PeerStep(c)

RoomSpec == RoomInit /\ [][RoomNext]_vars

\* Flow specification: the room specification with the entry screen used as
\* the room lifecycle asks, one existence check in flight at a time: a user
\* clicks only when no joinRoom call of theirs is suspended.
FlowClick(i, A) == calls[i] = <<>> /\ Click(i, A)

FlowNext ==
    \/ \E i \in Users, r \in Rooms : FlowClick(i, createRoom(i, r))
    \/ \E i \in Users, id \in Rooms \cup {""} : FlowClick(i, joinRoom(i, id))
    \/ \E i \in Users, k \in 1..MaxCalls : MediaGranted(i, k)
    \/ \E i \in Users, k \in 1..MaxCalls : MediaDenied(i, k)
    \/ \E i \in Users : Recv(i, handleRoomExists)
    \/ \E i \in Users : Recv(i, handleAllUsers)
    \/ \E i \in Users : Recv(i, handleUserJoined)
    \/ \E i \in Users : Recv(i, handleOffer)
    \/ \E i \in Users : Recv(i, handleAnswer)
    \/ \E i \in Users : Recv(i, handleIceCandidate)
    \/ \E c \in 1..Len(conns) : PeerStep(c)
    \/ \E c \in 1..Len(conns) : IceCandidate(c)

FlowSpec == RoomInit /\ [][FlowNext]_vars

\* Scenario specification: A creates a room and, once A has joined it, B
\* joins that room; getUserMedia grants.  The relay delivers what it holds
\* and the platform runs what is pending: the steps other than the clicks
\* are weakly fair.
Creates(i) ==
    \E r \in Rooms : rooms = {} /\ FlowClick(i, createRoom(i, r))

ThenJoins(i, creator) ==
    \E r \in Rooms : creator \in members[r] /\ FlowClick(i, joinRoom(i, r))

Deliveries ==
    \/ \E i \in Users, k \in 1..MaxCalls : MediaGranted(i, k)
    \/ \E i \in Users : Recv(i, handleRoomExists)
    \/ \E i \in Users : Recv(i, handleAllUsers)
    \/ \E i \in Users : Recv(i, handleUserJoined)
    \/ \E i \in Users : Recv(i, handleOffer)
    \/ \E i \in Users : Recv(i, handleAnswer)
    \/ \E i \in Users : Recv(i, handleIceCandidate)
    \/ \E c \in 1..Len(conns) : PeerStep(c)
    \/ \E c \in 1..Len(conns) : IceCandidate(c)

FairNext ==
    \/ Creates("A")
    \/ ThenJoins("B", "A")
    \/ Deliveries

FairSpec == RoomInit /\ [][FairNext]_vars /\ WF_vars(Deliveries)

\* Capacity specification: A creates a room and joins it, then B and C
\* join it, one call each, in any order; getUserMedia grants.
CapacityClick(i, A) ==
    /\ ~joined[i]
    /\ calls[i] = <<>>
    /\ events < MaxJoins
    /\ events' = events + 1
    /\ A

CapacityNext ==
    \/ \E r \in Rooms : rooms = {} /\ CapacityClick("A", createRoom("A", r))
    \/ \E i \in Ids \ {"A"}, r \in Rooms :
          "A" \in members[r] /\ CapacityClick(i, joinRoom(i, r))
    \/ \E i \in Ids, k \in 1..MaxCalls : MediaGranted(i, k)
    \/ \E i \in Ids : Recv(i, handleRoomExists)
    \/ \E i \in Ids : Recv(i, handleAllUsers)
    \/ \E i \in Ids : Recv(i, handleUserJoined)
    \/ \E i \in Ids : Recv(i, handleOffer)
    \/ \E i \in Ids : Recv(i, handleAnswer)
    \/ \E i \in Ids : Recv(i, handleRoomFull)
    \/ \E c \in 1..Len(conns) : PeerStep(c)

CapacitySpec == Fresh(Ids) /\ [][CapacityNext]_vars

\* Merge specification: Local is in a session with a connection to each
\* remote participant; tracks arrive on these connections and the server
\* sends activity events, in any order.
MergeInit ==
    /\ sockets = [k \in 1..Len(IdOrder) |->
                    [MountSockets(Ids)[k] EXCEPT !.rooms = {"r1"}]]
    /\ socket = [i \in Ids |-> UserPos(IdOrder, i)]
    /\ joined = [i \in Ids |-> i = Local]
    /\ error = [i \in Ids |-> ""]
    /\ localStreamRef = [i \in Ids |-> IF i = Local THEN 1 ELSE NoStream]
    /\ conns = [k \in 1..Len(UsersSeq(Remote)) |->
                  addPeer(UsersSeq(Remote)[k], Local, 1)]
    /\ peersRef = [i \in Ids |-> [u \in Ids |->
                      IF i = Local /\ u \in Remote
                      THEN UserPos(UsersSeq(Remote), u) ELSE NoConn]]
    /\ remoteVideos = [i \in Ids |-> [u \in Ids |-> NoEntry]]
    /\ participantCount = [i \in Ids |-> IF i = Local THEN Cardinality(Remote) + 1 ELSE 1]
    /\ calls = [i \in Ids |-> <<>>]
    /\ captures = <<NewCapture(Local)>>
    /\ media = [i \in Ids |-> NoToggle]
    /\ midi = NoMidi
    /\ inbox = [i \in Ids |-> <<>>]
    /\ rooms = {"r1"}
    /\ members = [r \in Rooms |-> IF r = "r1" THEN Ids ELSE {}]
    /\ online = Ids
    /\ timers = [i \in Ids |-> 0]
    /\ roomId = [i \in Ids |-> IF i = Local THEN "r1" ELSE ""]
    /\ roomUrl = [i \in Ids |-> IF i = Local THEN "r1" ELSE ""]
    /\ events = 0
    /\ last = NoEvent

Streams == 1..MaxStreams

TrackEvents == {Track(u, st) : u \in Remote, st \in Streams}

ChangeEvents ==
    {StateChange(t, u, b) : t \in {"remoteVideoStateChange", "remoteAudioStateChange"},
                            u \in Remote, b \in BOOLEAN}

SnapshotSets == {<<ids, on>> \in (SUBSET Remote) \X (SUBSET Remote) : on \subseteq ids}

SnapshotEvents ==
    {Snapshot(t, x[1], x[2]) : t \in {"initial-video-states", "initial-audio-states"},
                               x \in SnapshotSets}

MergeEvents == TrackEvents \cup ChangeEvents \cup SnapshotEvents

\* Local handles one of the events of E
Arrives(H(_, _), E) ==
    /\ events < MaxEvents
    /\ events' = events + 1
    /\ \E m \in E : H(Local, m) /\ last' = Handled(Local, m)
    /\ NoEmit(inbox)
    /\ UNCHANGED <<online, socket, timers, roomVars>>

MergeNext ==
    \/ Arrives(handleTrack, MergeEvents)
    \/ Arrives(handleInitialVideoStates, MergeEvents)
    \/ Arrives(handleInitialAudioStates, MergeEvents)
    \/ Arrives(handleRemoteVideoStateChange, MergeEvents)
    \/ Arrives(handleRemoteAudioStateChange, MergeEvents)

MergeSpec == MergeInit /\ [][MergeNext]_vars

\* Naming specification: Local is in a session and the server sends it the
\* events that make or change connections and entries, naming any
\* participant identifier, the one of Local included.
NamingEvents ==
    {Msg("all-users", "", FALSE, S, "", FALSE) : S \in SUBSET Ids}
    \cup {Plain("user-joined", u) : u \in Ids}
    \cup {Sdp("offer", u, TRUE) : u \in Ids}
    \cup {Snapshot(t, {u}, IF b THEN {u} ELSE {}) :
              t \in {"initial-video-states", "initial-audio-states"},
              u \in Ids, b \in BOOLEAN}
    \cup {StateChange(t, u, b) : t \in {"remoteVideoStateChange", "remoteAudioStateChange"},
                                 u \in Ids, b \in BOOLEAN}

NamingNext ==
    \/ Arrives(handleAllUsers, NamingEvents)
    \/ Arrives(handleUserJoined, NamingEvents)
    \/ Arrives(handleOffer, NamingEvents)
    \/ Arrives(handleInitialVideoStates, NamingEvents)
    \/ Arrives(handleInitialAudioStates, NamingEvents)
    \/ Arrives(handleRemoteVideoStateChange, NamingEvents)
    \/ Arrives(handleRemoteAudioStateChange, NamingEvents)

NamingSpec == Init /\ [][NamingNext]_vars

\* Leave specification: client Local and a participant B that is in room
\* r1 and is not followed.  The user of Local creates, joins and leaves
\* rooms; the server answers Local and sends it session events of B on the
\* socket that carries its handlers, while that socket is connected.
LeaveInit ==
    /\ joined = [i \in Ids |-> FALSE]
    /\ error = [i \in Ids |-> ""]
    /\ localStreamRef = [i \in Ids |-> NoStream]
    /\ peersRef = [i \in Ids |-> [u \in Ids |-> NoConn]]
    /\ remoteVideos = [i \in Ids |-> [u \in Ids |-> NoEntry]]
    /\ participantCount = [i \in Ids |-> 1]
    /\ calls = [i \in Ids |-> <<>>]
    /\ conns = <<>>
    /\ captures = <<>>
    /\ media = [i \in Ids |-> NoToggle]
    /\ midi = NoMidi
    /\ inbox = [i \in Ids |-> <<>>]
    /\ rooms = {"r1"}
    /\ members = [r \in Rooms |-> IF r = "r1" THEN {"B"} ELSE {}]
    /\ online = Users
    /\ sockets = [MountSockets(Users) EXCEPT ![UserPos(IdOrder, "B")].rooms = {"r1"}]
    /\ socket = [i \in Ids |-> UserPos(IdOrder, i)]
    /\ timers = [i \in Ids |-> 0]
    /\ roomId = [i \in Ids |-> ""]
    /\ roomUrl = [i \in Ids |-> ""]
    /\ events = 0
    /\ last = NoEvent

LeaveEvents ==
    {Plain(t, "B") : t \in {"user-joined", "user-disconnected", "ice-candidate"}}
    \cup {Sdp(t, "B", TRUE) : t \in {"offer", "answer"}}
    \cup {RoomMsg(t, "r1") : t \in {"room-not-found", "room-full"}}
    \cup {Snapshot("initial-video-states", {"B"}, {})}

\* an input of the environment of Local: a click or a server event
Input(A) == events < MaxInputs /\ events' = events + 1 /\ A

\* the server sends Local one of the events of LeaveEvents
Sends(H(_, _)) ==
    /\ Connected(sockets, socket[Local])
    /\ \E m \in LeaveEvents : H(Local, m) /\ last' = Handled(Local, m)
    /\ NoEmit(inbox)
    /\ UNCHANGED <<online, socket, timers, roomVars>>

\* an event arrives on a socket that carries no handler for it
Drop(i) ==
    /\ inbox[i] # <<>>
    /\ ~Registered(i, Head(inbox[i]))
    /\ NoEmit([inbox EXCEPT ![i] = Tail(@)])
    /\ last' = NoEvent
    /\ UNCHANGED <<clientVars, conns, captures, media, midi, online, socket, timers,
                   roomVars, events>>

LeaveNext ==
    \/ \E r \in Rooms : Input(createRoom(Local, r))
    \/ \E r \in Rooms : Input(joinRoom(Local, r))
    \/ Input(leaveRoom(Local))
    \/ Timer(Local)
    \/ \E s \in 1..Len(sockets) : Connect(s)
    \/ \E k \in 1..MaxCalls : MediaGranted(Local, k)
    \/ Recv(Local, handleRoomExists)
    \/ Recv(Local, handleAllUsers)
    \/ Recv(Local, handleRoomNotFound)
    \/ Drop(Local)
    \/ Input(Sends(handleUserJoined))
    \/ Input(Sends(handleOffer))
    \/ Input(Sends(handleAnswer))
    \/ Input(Sends(handleIceCandidate))
    \/ Input(Sends(handleUserDisconnected))
    \/ Input(Sends(handleRoomNotFound))
    \/ Input(Sends(handleRoomFull))
    \/ Input(Sends(handleInitialVideoStates))
    \/ \E c \in 1..Len(conns) : PeerStep(c)

LeaveSpec == LeaveInit /\ [][LeaveNext]_vars

\* Controls specification: Local is in a session in room r1 with B, which
\* is not followed; the user of Local clicks the mute and camera buttons
\* of the session screen while the server sends session events of B.
ToggleInit ==
    /\ joined = [i \in Ids |-> i = Local]
    /\ error = [i \in Ids |-> ""]
    /\ localStreamRef = [i \in Ids |-> IF i = Local THEN 1 ELSE NoStream]
    /\ peersRef = [i \in Ids |-> [u \in Ids |-> NoConn]]
    /\ remoteVideos = [i \in Ids |-> [u \in Ids |-> NoEntry]]
    /\ participantCount = [i \in Ids |-> 1]
    /\ calls = [i \in Ids |-> <<>>]
    /\ conns = <<>>
    /\ captures = <<NewCapture(Local)>>
    /\ media = [i \in Ids |-> NoToggle]
    /\ midi = NoMidi
    /\ inbox = [i \in Ids |-> <<>>]
    /\ rooms = {"r1"}
    /\ members = [r \in Rooms |-> IF r = "r1" THEN Users ELSE {}]
    /\ online = Users
    /\ sockets = [k \in 1..Len(IdOrder) |->
                    [MountSockets(Users)[k] EXCEPT
                        !.rooms = IF IdOrder[k] \in Users THEN {"r1"} ELSE {}]]
    /\ socket = [i \in Ids |-> UserPos(IdOrder, i)]
    /\ timers = [i \in Ids |-> 0]
    /\ roomId = [i \in Ids |-> IF i = Local THEN "r1" ELSE ""]
    /\ roomUrl = [i \in Ids |-> IF i = Local THEN "r1" ELSE ""]
    /\ events = 0
    /\ last = NoEvent

\* a click on a control of the session screen, which is shown while joined
Control(i, A) == joined[i] /\ Input(A)

ToggleNext ==
    \/ Control(Local, toggleMute(Local))
    \/ Control(Local, toggleVideo(Local))
    \/ Input(Sends(handleUserJoined))
    \/ Input(Sends(handleOffer))
    \/ Input(Sends(handleAnswer))
    \/ Input(Sends(handleInitialVideoStates))
    \/ \E c \in 1..Len(conns) : PeerStep(c)

ToggleSpec == ToggleInit /\ [][ToggleNext]_vars

\* Cycle specification: the user of Local creates or joins a room, uses
\* the media controls and leaves, again and again; B is in room r1 and is
\* not followed.
MaxCycle == 4

Press(A) == events < MaxCycle /\ events' = events + 1 /\ A

CycleNext ==
    \/ ~joined[Local] /\ Press(createRoom(Local, "r2"))
    \/ \E r \in Rooms : ~joined[Local] /\ Press(joinRoom(Local, r))
    \/ joined[Local] /\ Press(leaveRoom(Local))
    \/ joined[Local] /\ Press(toggleMute(Local))
    \/ joined[Local] /\ Press(toggleVideo(Local))
    \/ Timer(Local)
    \/ \E s \in 1..Len(sockets) : Connect(s)
    \/ \E k \in 1..MaxCycle : MediaGranted(Local, k)
    \/ Recv(Local, handleRoomExists)
    \/ Recv(Local, handleAllUsers)
    \/ Drop(Local)

CycleSpec == LeaveInit /\ [][CycleNext]_vars

----------------------------------------------------------------------------
(* MidiVisualizer({socket, roomId}).  midi holds its props (socket,        *)
(* roomId), the module-level WebMidiInstance (loaded, enabled, and the     *)
(* listeners on its inputs: every input is treated alike, so listeners is  *)
(* the set of effect runs whose noteon/noteoff listeners the inputs        *)
(* carry), the runs of the setup effect, animatedNotesRef.current (notes)  *)
(* and the midi-message events emitted (sent).  ev is the event the step   *)
(* just taken handled.                                                     *)

MidiSockets == {NoSocket, 1}
MidiRooms == {"", "r1", "r2"}
Notes == {"c4", "d4"}

\* a run of the setup effect: setupMidi() is suspended at `pc`; socket and
\* roomId are those of the render the effect closed over
Effect(sk, r) == [pc |-> "import", socket |-> sk, roomId |-> r, live |-> TRUE]

MidiEv(kind, type, n) == [kind |-> kind, type |-> type, note |-> n]

AnimatedNote(n, isLocal) == [note |-> n, isLocal |-> isLocal, released |-> FALSE]

\* animatedNotesRef.current.forEach: release the unreleased notes n of the
\* local (remote) kind
Release(notes, n, isLocal) ==
    [k \in 1..Len(notes) |->
        IF notes[k].note = n /\ notes[k].isLocal = isLocal /\ ~notes[k].released
        THEN [notes[k] EXCEPT !.released = TRUE]
        ELSE notes[k]]

\* handleRemoteMidiMessage
RemoteNote(notes, type, n) ==
    IF type = "noteon" THEN Append(notes, AnimatedNote(n, FALSE))
    ELSE Release(notes, n, FALSE)

\* the noteon / noteoff listener registered by effect run e handles note n
LocalNote(m, e, type, n) ==
    [m EXCEPT
       !.notes = IF type = "noteon" THEN Append(@, AnimatedNote(n, TRUE))
                 ELSE Release(@, n, TRUE),
       !.sent = IF m.effects[e].socket # NoSocket /\ m.effects[e].roomId # ""
                THEN Append(@, [socket |-> m.effects[e].socket,
                                roomId |-> m.effects[e].roomId,
                                type |-> type, note |-> n])
                ELSE @]

\* every listener the input carries hears the event
RECURSIVE HearAll(_, _, _, _)
HearAll(m, S, type, n) ==
    IF S = {} THEN m
    ELSE LET e == CHOOSE x \in S : TRUE
         IN  HearAll(LocalNote(m, e, type, n), S \ {e}, type, n)

\* the cleanup of the setup effect: if (WebMidiInstance &&
\* WebMidiInstance.enabled) { removeListener() on every input; disable() }
MidiCleanup(m) ==
    LET n == [m EXCEPT !.effects =
                 [k \in 1..Len(@) |-> [@[k] EXCEPT !.live = FALSE]]]
    IN  IF m.loaded /\ m.enabled
        THEN [n EXCEPT !.listeners = {}, !.enabled = FALSE]
        ELSE n

\* the setup effect runs: setupMidi() starts and awaits import('webmidi')
MidiSetup(m, sk, r) ==
    [m EXCEPT !.socket = sk, !.roomId = r, !.mounted = TRUE,
              !.effects = Append(@, Effect(sk, r))]

MidiFrame ==
    /\ last' = NoEvent
    /\ NoEmit(inbox)
    /\ UNCHANGED <<clientVars, conns, captures, media, online, socket,
                   timers, roomVars>>

\* the component mounts with props (sk, r)
MidiMount(sk, r) ==
    /\ ~midi.mounted
    /\ midi' = [MidiSetup(midi, sk, r) EXCEPT !.ev = MidiEv("mount", "", "")]
    /\ MidiFrame

\* socket or roomId changes: cleanup of the previous run, then a new run
MidiProps(sk, r) ==
    /\ midi.mounted
    /\ <<sk, r>> # <<midi.socket, midi.roomId>>
    /\ midi' = [MidiSetup(MidiCleanup(midi), sk, r) EXCEPT
                   !.ev = MidiEv("props", "", "")]
    /\ MidiFrame

\* the component unmounts
MidiUnmount ==
    /\ midi.mounted
    /\ midi' = [MidiCleanup(midi) EXCEPT !.mounted = FALSE,
                                         !.ev = MidiEv("unmount", "", "")]
    /\ MidiFrame

\* await import('webmidi') resolves for run e (imports of one module
\* resolve in the order they were made): WebMidiInstance = WebMidi, and the
\* run awaits WebMidiInstance.enable()
ImportDone(e) ==
    /\ e \in 1..Len(midi.effects)
    /\ midi.effects[e].pc = "import"
    /\ \A k \in 1..(e - 1) : midi.effects[k].pc # "import"
    /\ midi' = [midi EXCEPT !.loaded = TRUE, !.effects[e].pc = "enable",
                            !.ev = MidiEv("import", "", "")]
    /\ UNCHANGED events
    /\ MidiFrame

\* inputs.forEach(input => input.removeListener()) and then
\* inputs.forEach(input => input.addListener('noteon' ...); addListener('noteoff' ...))
Register(ls, e) == {e}

\* await WebMidiInstance.enable() resolves for run e, which registers its
\* listeners
EnableDone(e) ==
    /\ e \in 1..Len(midi.effects)
    /\ midi.effects[e].pc = "enable"
    /\ midi' = [midi EXCEPT !.enabled = TRUE,
                            !.listeners = Register(@, e),
                            !.effects[e].pc = "done",
                            !.ev = MidiEv("enable", "", "")]
    /\ UNCHANGED events
    /\ MidiFrame

\* enable() rejects for run e: the catch logs
EnableFailed(e) ==
    /\ e \in 1..Len(midi.effects)
    /\ midi.effects[e].pc = "enable"
    /\ midi' = [midi EXCEPT !.effects[e].pc = "done",
                            !.ev = MidiEv("enable-failed", "", "")]
    /\ UNCHANGED events
    /\ MidiFrame

\* an input fires noteon / noteoff for note n: its listeners run
LocalMidi(type, n) ==
    /\ midi.listeners # {}
    /\ midi' = [HearAll(midi, midi.listeners, type, n) EXCEPT
                   !.ev = MidiEv("local", type, n)]
    /\ MidiFrame

\* remote-midi-message arrives on the socket of the props, on which the
\* [socket] effect has registered handleRemoteMidiMessage
RemoteMidi(type, n) ==
    /\ midi.mounted
    /\ midi.socket # NoSocket
    /\ midi' = [midi EXCEPT !.notes = RemoteNote(@, type, n),
                            !.ev = MidiEv("remote", type, n)]
    /\ MidiFrame

\* MIDI specification: the visualizer is mounted, gets new props and is
\* unmounted while its setup runs; the inputs and the server send notes.
MidiNext ==
    \/ \E sk \in MidiSockets, r \in MidiRooms : Input(MidiMount(sk, r))
    \/ \E sk \in MidiSockets, r \in MidiRooms : Input(MidiProps(sk, r))
    \/ Input(MidiUnmount)
    \/ \E e \in 1..MaxInputs + 1 : ImportDone(e)
    \/ \E e \in 1..MaxInputs + 1 : EnableDone(e)
    \/ \E e \in 1..MaxInputs + 1 : EnableFailed(e)
    \/ \E t \in {"noteon", "noteoff"}, n \in Notes : Input(LocalMidi(t, n))
    \/ \E t \in {"noteon", "noteoff"}, n \in Notes : Input(RemoteMidi(t, n))

MidiSpec == Fresh(Users) /\ [][MidiNext]_vars

----------------------------------------------------------------------------
(* Properties of the session specification (Spec) *)

Conns == 1..Len(conns)
Open(c) == conns[c].sig # "closed"

\* the step just taken was client i handling an event of one of `types`
\* from participant X (to be read in the new state of a step)
JustHandled(i, types, X) ==
    last.to = i /\ last.msg.type \in types /\ last.msg.peer = X

\* the answers the relay has passed on to X from i
AnswersTo(X, i) ==
    Len(SelectSeq(inbox[X], LAMBDA m : m.type = "answer" /\ m.peer = i))

\* the answers i emitted for its connections 1..n to X
RECURSIVE AnswersEmitted(_, _, _)
AnswersEmitted(i, X, n) ==
    IF n = 0 THEN 0
    ELSE AnswersEmitted(i, X, n - 1)
         + (IF conns[n].owner = i /\ conns[n].remote = X
            THEN conns[n].answers ELSE 0)

\* the operations of handleOffer still pending on connection c
OfferPending(c) ==
    \E k \in 1..Len(conns[c].chain) :
        conns[c].chain[k].op \in {"SRD_offer", "createAnswer", "SLD_answer"}

\* C1: every participant identifier has at most one un-closed Peer
\* Connection: a connection that is no longer the one stored in the peer
\* map under its participant has been closed.
C1_OneOpenConnection ==
    \A c \in Conns :
        Open(c) => peersRef[conns[c].owner][conns[c].remote] = c

\* C8: an offer from a participant X that has no entry in the peer map is
\* not dropped: handleOffer creates a connection for X by addPeer, stores it
\* under X and applies the offer to it; and once the steps of such a
\* negotiation have run on a connection that got one offer, exactly one
\* answer has been emitted for it, every answer going to its participant.
C8_OfferCreatesResponder ==
    /\ [][\A X \in Remote :
            (JustHandled(Local, {"offer"}, X)' /\ peersRef[Local][X] = NoConn)
            => LET c == peersRef'[Local][X]
               IN  /\ c = Len(conns) + 1
                   /\ Len(conns') = c
                   /\ conns'[c].role = "addPeer"
                   /\ conns'[c].remote = X
                   /\ conns'[c].offers = 0
                   /\ conns'[c].chain = <<Op("SRD_offer", last'.msg.tracks)>>]_vars
    /\ [](\A c \in Conns :
            (conns[c].role = "addPeer" /\ Open(c) /\ conns[c].offersIn = 1
                /\ ~OfferPending(c))
            => conns[c].answers = 1 /\ conns[c].local = "answer")
    /\ [](\A X \in Remote :
            AnswersTo(X, Local) = AnswersEmitted(Local, X, Len(conns)))

\* the first event was an offer from B, which had no connection: the
\* connection made for it has answered
C8_Witness ==
    /\ Len(conns) = 1
    /\ conns[1].role = "addPeer"
    /\ conns[1].offersIn = 1
    /\ peersRef[Local]["B"] = 1
    /\ conns[1].answers = 1
    /\ AnswersTo("B", Local) = 1

\* C9: an offer or answer for a participant whose connection is already
\* CONNECTED is ignored: the handler does not apply it to the connection.
C9_ConnectedIgnoresDuplicates ==
    [][\A X \in Remote :
         LET c == peersRef[Local][X]
         IN  (JustHandled(Local, {"offer", "answer"}, X)' /\ c # NoConn
                 /\ Phase(conns[c]) = "CONNECTED")
             => conns'[c] = conns[c]]_vars

PhaseRank(ph) ==
    CASE ph = "CREATED" -> 0
      [] ph \in {"OFFER_SENT", "OFFER_RECEIVED"} -> 1
      [] ph \in {"ANSWER_SENT", "ANSWER_RECEIVED"} -> 2
      [] ph = "CONNECTED" -> 3
      [] ph = "CLOSED" -> 4

\* C10: no connection moves backwards along
\* CREATED -> OFFER_SENT / OFFER_RECEIVED -> ANSWER -> CONNECTED -> CLOSED,
\* none both offers and answers, and a closed one is not touched again.
C10_MonotonicPhases ==
    [][\A c \in Conns :
         /\ PhaseRank(Phase(conns'[c])) >= PhaseRank(Phase(conns[c]))
         /\ ~(conns'[c].offers > 0 /\ conns'[c].answers > 0)
         /\ (~Open(c) => conns'[c] = conns[c])]_vars

----------------------------------------------------------------------------
(* Properties of the room specification (RoomSpec) *)

\* the number of calls in cs suspended at pc
Awaiting(cs, pc) == Cardinality({k \in 1..Len(cs) : cs[k].pc = pc})

\* the step just taken was step `type` of a joinRoom call of client i (to be
\* read in the new state of a step)
JustDid(i, type) == last.to = i /\ last.msg.type = type

\* what a step of client i that acquires nothing and joins nothing leaves
\* alone: the session state of every client and the rooms of the server
SessionUnchanged ==
    UNCHANGED <<joined, localStreamRef, captures, media, peersRef, remoteVideos,
                participantCount, conns, rooms, members>>

\* C4: the outcome of a joinRoom call is that of its own check-room: a call
\* for a room that does not exist never goes on to acquire media, and never
\* emits join-room.  (The server never removes a room, so a room that does
\* not exist now did not exist when the call checked.)
C4_ExistenceCheckCorrelated ==
    /\ \A i \in Users : \A k \in 1..Len(calls[i]) :
          calls[i][k].pc = "media" => calls[i][k].room \in rooms
    /\ \A i \in Users :
          JustDid(i, "media-granted") => last.msg.room \in rooms

\* C5: when the room-exists reply a joinRoom call waits for says the room
\* does not exist, the call ends with the RoomNotFound error: no call goes
\* on to acquire media, nothing is emitted, and joined, the capture, the
\* peer map, the connections and the remote collection stay as they were.
C5_RoomNotFound ==
    [][\A i \in Users :
         (JustDid(i, "room-exists")' /\ ~last'.msg.flag
             /\ Awaiting(calls[i], "exists") > 0)
         => /\ error'[i] = "RoomNotFound"
            /\ Awaiting(calls'[i], "exists") = 0
            /\ Awaiting(calls'[i], "media") = Awaiting(calls[i], "media")
            /\ inbox' = [inbox EXCEPT ![i] = Tail(@)]
            /\ SessionUnchanged]_vars

\* the only click so far was A's Join for a room that does not exist, and
\* the reply has been handled
C5_Witness ==
    /\ events = 1
    /\ JustDid("A", "room-exists")
    /\ ~last.msg.flag
    /\ error["A"] = "RoomNotFound"
    /\ calls["A"] = <<>>
    /\ ~joined["A"]
    /\ captures = <<>>

\* C6: when getUserMedia fails for a joinRoom call, the call ends with the
\* MediaAccessDenied error: it emits nothing (no join-room), it does not
\* set joined and it stores no capture, so that a client none of whose
\* calls got a stream is not joined and holds no capture.
C6_MediaAccessDenied ==
    /\ [][\A i \in Users :
            JustDid(i, "media-denied")'
            => /\ error'[i] = "MediaAccessDenied"
               /\ inbox' = inbox
               /\ SessionUnchanged]_vars
    /\ [](\A i \in Users :
            (JustDid(i, "media-denied") /\ ~joined[i])
            => localStreamRef[i] = NoStream /\ \A r \in Rooms : i \notin members[r])

\* A created a room and getUserMedia failed
C6_Witness ==
    /\ JustDid("A", "media-denied")
    /\ last.msg.room \in rooms
    /\ error["A"] = "MediaAccessDenied"
    /\ ~joined["A"]
    /\ localStreamRef["A"] = NoStream
    /\ inbox["A"] = <<>>

\* C7: joinRoom with the empty identifier sets the InvalidInput error and
\* returns: nothing is emitted, no call is suspended, no media is acquired,
\* and joined, the peer map and the remote collection are unchanged.
C7_InvalidInput ==
    [][\A i \in Users :
         (JustDid(i, "click-join")' /\ last'.msg.room = "")
         => /\ error'[i] = "InvalidInput"
            /\ inbox' = inbox
            /\ calls' = calls
            /\ SessionUnchanged]_vars

\* A called joinRoom with the empty identifier
C7_Witness ==
    /\ JustDid("A", "click-join")
    /\ last.msg.room = ""
    /\ error["A"] = "InvalidInput"
    /\ calls["A"] = <<>>
    /\ inbox["A"] = <<>>
    /\ ~joined["A"]

----------------------------------------------------------------------------
(* Properties of the flow specification (FlowSpec) *)

\* the offer chain of createPeer is still pending on connection c
OfferChainPending(c) ==
    \E k \in 1..Len(conns[c].chain) :
        conns[c].chain[k].op \in {"createOffer", "SLD_offer"}

\* client i has sent X an offer on some connection
Offered(i, X) ==
    \E c \in Conns :
        conns[c].owner = i /\ conns[c].remote = X /\ conns[c].offers > 0

----------------------------------------------------------------------------
(* Properties of the scenario specification (FairSpec) *)

\* client i holds a CONNECTED connection to j and an inbound stream of j in
\* its remote collection
Linked(i, j) ==
    /\ peersRef[i][j] # NoConn
    /\ Phase(conns[peersRef[i][j]]) = "CONNECTED"
    /\ remoteVideos[i][j].present
    /\ remoteVideos[i][j].stream # NoStream

\* the connection of i to j has sent one offer and no answer / one answer
\* and no offer
SentOffer(i, j) ==
    /\ peersRef[i][j] # NoConn
    /\ conns[peersRef[i][j]].offers = 1
    /\ conns[peersRef[i][j]].answers = 0

SentAnswer(i, j) ==
    /\ peersRef[i][j] # NoConn
    /\ conns[peersRef[i][j]].offers = 0
    /\ conns[peersRef[i][j]].answers = 1

\* B has called joinRoom for the room A created and joined
BJoins == calls["B"] # <<>>

\* C2 as stated, its final result: when A, who created the room, and B,
\* who then joined it, are both CONNECTED with an inbound stream, it is A
\* that sent the offer and B that answered it.
C2_CreatorOffers ==
    (Linked("A", "B") /\ Linked("B", "A"))
    => (SentOffer("A", "B") /\ SentAnswer("B", "A"))

\* C2, amended: once B joins the room A created, eventually and from then
\* on both are CONNECTED with an inbound stream; it is B, the joiner, that
\* sent the offer (on all-users) and A, the occupant, that answered it (its
\* connection made on user-joined(B)).
C2_JoinerOffers ==
    BJoins ~> [](Linked("A", "B") /\ Linked("B", "A")
                    /\ SentOffer("B", "A") /\ SentAnswer("A", "B"))

\* the scenario has run to its end
C2_Witness ==
    /\ joined["A"] /\ joined["B"]
    /\ Linked("A", "B") /\ Linked("B", "A")
    /\ SentOffer("B", "A") /\ SentAnswer("A", "B")
    /\ conns[peersRef["A"]["B"]].role = "addPeer"
    /\ conns[peersRef["B"]["A"]].role = "createPeer"
    /\ \A c \in Conns : conns[c].chain = <<>>
    /\ \A i \in Users : inbox[i] = <<>>

----------------------------------------------------------------------------
(* Properties of the merge specification (MergeSpec) *)

Entry(X) == remoteVideos[Local][X]

ApplyFlag(rv, m) ==
    CASE m.type = "remoteVideoStateChange" -> RemoteVideoState(rv, m.peer, m.flag)
      [] m.type = "remoteAudioStateChange" -> RemoteAudioState(rv, m.peer, m.flag)
      [] m.type = "initial-video-states"   -> InitialVideoStates(rv, m.users, m.on)
      [] m.type = "initial-audio-states"   -> InitialAudioStates(rv, m.users, m.on)

\* activity event m carries a flag of participant X
About(m, X) == m.peer = X \/ X \in m.users

\* C12: from any state of the collection, a track arrival for X followed by
\* a state-flag message for X, and the same two events in the opposite
\* order, end in the same entry for X.
C12_OrderIndependence ==
    \A X \in Remote, st \in Streams, m \in ChangeEvents \cup SnapshotEvents :
        About(m, X)
        => ApplyFlag(OnTrack(remoteVideos[Local], X, st), m)[X]
           = OnTrack(ApplyFlag(remoteVideos[Local], m), X, st)[X]

\* C13: a remoteVideoStateChange (remoteAudioStateChange) for a participant
\* B that has an entry sets B's videoActive (audioActive) to the carried
\* value and changes nothing else: not B's other flag or media handle, not
\* another entry, not the peer map, not the participant count.
C13_StateChangeFrame ==
    [][\A B \in Remote :
        /\ (JustHandled(Local, {"remoteVideoStateChange"}, B)' /\ Entry(B).present)
           => /\ Entry(B)' = [Entry(B) EXCEPT !.videoActive = last'.msg.flag]
              /\ \A u \in Ids \ {B} : Entry(u)' = Entry(u)
              /\ UNCHANGED <<peersRef, participantCount, conns>>
        /\ (JustHandled(Local, {"remoteAudioStateChange"}, B)' /\ Entry(B).present)
           => /\ Entry(B)' = [Entry(B) EXCEPT !.audioActive = last'.msg.flag]
              /\ \A u \in Ids \ {B} : Entry(u)' = Entry(u)
              /\ UNCHANGED <<peersRef, participantCount, conns>>]_vars

\* B, whose stream is shown with audio off, has just turned its video off
C13_Witness ==
    /\ JustHandled(Local, {"remoteVideoStateChange"}, "B")
    /\ ~last.msg.flag
    /\ Entry("B").stream # NoStream
    /\ ~Entry("B").videoActive
    /\ ~Entry("B").audioActive

----------------------------------------------------------------------------
(* Properties of the leave specification (LeaveSpec) *)

\* C14: when user-disconnected(B) has been processed, the connection the
\* peer map held for B is closed and the peer map has none for B, the
\* collection has no entry for B, be it one that held only flags, and the
\* participant count went down by one, but not below 1.
C14_DisconnectHandling ==
    [][\A B \in Remote :
        JustHandled(Local, {"user-disconnected"}, B)'
        => /\ peersRef'[Local][B] = NoConn
           /\ peersRef[Local][B] # NoConn
              => /\ conns'[peersRef[Local][B]].sig = "closed"
                 /\ participantCount'[Local] = Max(1, participantCount[Local] - 1)
           /\ ~Entry(B)'.present]_vars

\* connection c was made for participant X of Local and is closed
ClosedFor(c, X) ==
    conns[c].owner = Local /\ conns[c].remote = X /\ ~Open(c)

\* C15: the peer map never holds a closed connection; nothing is applied to
\* a closed connection any more, whatever answer or candidate arrives for
\* its participant; and an offer from a participant whose connection was
\* closed is given to a new connection, which the peer map then holds.
C15_Teardown ==
    /\ [](\A c \in Stored(peersRef[Local]) : Open(c))
    /\ [][\A c \in Conns : ~Open(c) => conns'[c] = conns[c]]_vars
    /\ [][\A X \in Remote :
            (JustHandled(Local, {"offer"}, X)' /\ \E c \in Conns : ClosedFor(c, X)
                /\ peersRef[Local][X] = NoConn)
            => /\ Len(conns') = Len(conns) + 1
               /\ peersRef'[Local][X] = Len(conns')
               /\ conns'[Len(conns')].sig # "closed"
               /\ conns'[Len(conns')].remote = X
               /\ conns'[Len(conns')].chain = <<Op("SRD_offer", last'.msg.tracks)>>]_vars

\* B's connection was closed and B has sent an offer since: the peer map
\* holds a new, open connection for B, which has the offer
C15_Witness ==
    /\ JustHandled(Local, {"offer"}, "B")
    /\ \E c \in Conns : ClosedFor(c, "B") /\ c < peersRef[Local]["B"]
    /\ Open(peersRef[Local]["B"])
    /\ conns[peersRef[Local]["B"]].offersIn = 1

\* the connections and the captures client i has made
ConnsOf(i) == {c \in Conns : conns[c].owner = i}
CapturesOf(i) == {k \in 1..Len(captures) : captures[k].owner = i}

\* the collection of client i is empty / its peer map is empty
NoEntries(i) == \A u \in Ids : ~remoteVideos[i][u].present
NoPeers(i) == \A u \in Ids : peersRef[i][u] = NoConn

\* C16: right after leaveRoom from a joined state, every capture track is
\* stopped and no capture is held, every connection made in the session is
\* closed and the peer map is empty, the collection is empty, the room
\* identifier and the join URL are reset, joined is false and the
\* participant count is 1.
C16_LeaveRoomPostcondition ==
    [][(JustDid(Local, "click-leave")' /\ joined[Local])
       => /\ \A k \in CapturesOf(Local) : ~captures'[k].live
          /\ localStreamRef'[Local] = NoStream
          /\ \A c \in ConnsOf(Local) : conns'[c].sig = "closed"
          /\ NoPeers(Local)'
          /\ NoEntries(Local)'
          /\ roomId'[Local] = "" /\ roomUrl'[Local] = ""
          /\ ~joined'[Local]
          /\ participantCount'[Local] = 1]_vars

\* C17: a leaveRoom that follows a leaveRoom at once, or that is called
\* when nothing is joined, is a no-op: it changes nothing of the client,
\* closes and opens no signaling channel and schedules none.
C17_LeaveRoomIdempotent ==
    [][(JustDid(Local, "click-leave")'
        /\ (JustDid(Local, "click-leave") \/ ~joined[Local]))
       => UNCHANGED <<clientVars, conns, captures, media, roomVars, sockets, socket,
                      timers>>]_vars

\* the step has just subscribed a call of client i to room-exists: a click,
\* or the connect event the call awaited, appended it to the calls
Subscribed(i) ==
    /\ last'.msg.type \in {"click-join", "click-create", ""}
    /\ calls'[i] # calls[i]
    /\ calls'[i] # <<>>
    /\ calls'[i][Len(calls'[i])].pc = "exists"

\* C18: a createRoom or joinRoom never waits for a room-exists reply that
\* cannot arrive: the socket it has emitted check-room and subscribed on is
\* not a closed one, at whatever time after leaveRoom the user clicks.
C18_CleanSlateAfterLeave ==
    [][Subscribed(Local)
       => sockets'[calls'[Local][Len(calls'[Local])].sock].state # "closed"]_vars

\* nothing of a session of client i is left: no live capture track and no
\* capture held, no open connection, an empty collection
TornDown(i) ==
    /\ \A k \in CapturesOf(i) : ~captures[k].live
    /\ localStreamRef[i] = NoStream
    /\ \A c \in ConnsOf(i) : ~Open(c)
    /\ NoEntries(i)

\* C19: when a room-not-found event has been handled, an error is shown and
\* the client has gone through leaveRoom: joined is false, the capture
\* tracks are stopped, the connections closed, the collection empty.
C19_RoomNotFoundForcesLeave ==
    JustDid(Local, "room-not-found")
    => (error[Local] # "" /\ ~joined[Local] /\ TornDown(Local))

\* C20: when a room-full event has been handled, an error is shown, the
\* client is not joined and the capture the join attempt had acquired is
\* released: its tracks are stopped and no capture is held.
C20_RoomFullRefusesJoin ==
    JustDid(Local, "room-full")
    => /\ error[Local] # ""
       /\ ~joined[Local]
       /\ \A k \in CapturesOf(Local) : ~captures[k].live
       /\ localStreamRef[Local] = NoStream

----------------------------------------------------------------------------
(* Properties of the capacity specification (CapacitySpec) *)

\* the server has admitted client i to a room
Admitted(i) == \E r \in Rooms : i \in members[r]

\* C21: with a server that caps a room at two and answers a join-room over
\* the cap with room-full, the client that is refused shows RoomFull, and
\* a client the server has not admitted has no connection and no occupant
\* has one for it.
C21_Capacity ==
    /\ [](\A r \in Rooms : Cardinality(members[r]) <= RoomCapacity)
    /\ [](\A i \in Ids : JustDid(i, "room-full") => error[i] = "RoomFull")
    /\ [](\A i \in Ids :
            ~Admitted(i)
            => /\ NoPeers(i)
               /\ \A c \in Conns : conns[c].owner # i /\ conns[c].remote # i)

\* a third client has been refused while the two occupants are connected
\* to each other, and nobody has a connection from or to it
C21_Witness ==
    \E i \in Ids :
        /\ JustDid(i, "room-full")
        /\ ~Admitted(i)
        /\ \E a, b \in Ids \ {i} :
              /\ peersRef[a][b] # NoConn
              /\ peersRef[b][a] # NoConn
              /\ conns[peersRef[a][b]].remoteD = "answer"
        /\ \A c \in Conns : conns[c].owner # i /\ conns[c].remote # i

----------------------------------------------------------------------------
(* Further properties of the leave specification (LeaveSpec) *)

\* a task of client Local is suspended on connection c
Suspended(c) == conns[c].owner = Local /\ conns[c].chain # <<>>

\* the step just taken was a teardown at Local: leaveRoom, or the handling
\* of user-disconnected
Teardown == JustDid(Local, "click-leave") \/ JustDid(Local, "user-disconnected")

----------------------------------------------------------------------------
(* Further properties of the session specification (Spec) *)

\* the step rejects the description or candidate that a handler of Local
\* applied to connection c: the operation leaves the chain and nothing else
\* of the connection changes
Rejected(c) ==
    /\ conns[c].owner = Local
    /\ conns[c].chain # <<>>
    /\ Head(conns[c].chain).op \in {"SRD_offer", "SRD_answer", "addIce"}
    /\ Head(conns[c].chain).op = "addIce" => conns[c].remoteD = "none"
    /\ conns'[c] = [conns[c] EXCEPT !.chain = Tail(@)]

\* C23: when applying an offer, an answer or a candidate fails for
\* participant X, the connection for X is closed and leaves the peer map and
\* the entry of X leaves the collection.
C23_FailureClosesPeer ==
    [][\A c \in Conns :
          Rejected(c)
          => /\ conns'[c].sig = "closed"
             /\ peersRef'[Local][conns[c].remote] # c
             /\ ~remoteVideos'[Local][conns[c].remote].present]_vars

----------------------------------------------------------------------------
(* Further properties of the room lifecycle *)

\* the step is a createRoom / joinRoom call of client i reaching its
\* emission of check-room
SendsCheck(i) ==
    \E k \in 1..Len(calls'[i]) :
        /\ calls'[i][k].pc = "exists"
        /\ \/ k > Len(calls[i])
           \/ calls[i][k].pc = "connect"
        /\ Len(calls'[i]) >= Len(calls[i])

\* C24: a call that passes the input check resets the error before it sends
\* check-room (first conjunct), and when joined becomes true the error is
\* empty: in particular no failure of a createRoom / joinRoom call is on
\* display (second conjunct).
C24_ErrorCleared ==
    /\ [][\A i \in Ids : SendsCheck(i) => error'[i] = ""]_vars
    /\ [][\A i \in Ids :
            ~joined[i] /\ joined'[i]
            => error'[i] \notin {"MediaAccessDenied", "RoomNotFound"}]_vars

----------------------------------------------------------------------------
(* Candidates (Spec) *)

----------------------------------------------------------------------------
(* Properties of the naming specification (NamingSpec) *)

\* C28: the identifier of the local participant is never a key of the peer
\* map nor an entry of the collection, whatever the events name.
C28_NoSelf ==
    /\ peersRef[Local][Local] = NoConn
    /\ ~remoteVideos[Local][Local].present
    /\ \A c \in Conns : conns[c].owner = Local => conns[c].remote # Local

----------------------------------------------------------------------------
(* Identifier of the create flow (RoomSpec) *)

\* the rooms the suspended calls of client i are for
CallRooms(cs) == {cs[k].room : k \in 1..Len(cs)}

\* C29: createRoom emits create-room for its new identifier N before the
\* check-room of its join flow (the server, which gets them in that order,
\* has the room when it answers the check), the call keeps N while it is
\* suspended, and the join-room it emits is for N and for no other room.
C29_CreateThenJoin ==
    /\ [][\A i \in Users :
            JustDid(i, "click-create")'
            => LET N == last'.msg.room
               IN  /\ N \in rooms'
                   /\ Len(calls'[i]) = Len(calls[i]) + 1
                   /\ calls'[i][Len(calls'[i])].room = N
                   /\ calls'[i][Len(calls'[i])].pc = "exists"
                   /\ Len(inbox'[i]) = Len(inbox[i]) + 1
                   /\ inbox'[i][Len(inbox'[i])].type = "room-exists"
                   /\ inbox'[i][Len(inbox'[i])].flag]_vars
    /\ [][\A i \in Users :
            JustDid(i, "room-exists")' => CallRooms(calls'[i]) \subseteq CallRooms(calls[i])]_vars
    /\ [][\A i \in Users :
            JustDid(i, "media-granted")'
            => LET N == last'.msg.room
               IN  /\ \E k \in 1..Len(calls[i]) :
                        /\ calls[i][k].pc = "media"
                        /\ calls[i][k].room = N
                        /\ calls'[i] = RemoveAt(calls[i], k)
                   /\ \A r \in Rooms \ {N} : members'[r] = members[r]
                   /\ (N \in rooms /\ Cardinality(members[N] \ {i}) < RoomCapacity)
                      => i \in members'[N]]_vars

\* the creator of a room has just joined the room it created
C29_Witness ==
    \E i \in Users :
        /\ JustDid(i, "media-granted")
        /\ roomUrl[i] # ""
        /\ last.msg.room = roomUrl[i]
        /\ i \in members[roomUrl[i]]
        /\ \A r \in Rooms \ {roomUrl[i]} : i \notin members[r]

----------------------------------------------------------------------------
(* Properties of the controls specification (ToggleSpec) *)

\* what the relay has passed on to X of the local state changes of `type`
Announced(X, type) == SelectSeq(inbox[X], LAMBDA m : m.type = type)

\* the capture Local holds
LocalCapture == captures[localStreamRef[Local]]

\* C25: every camera toggle negates the local video flag and sets the video
\* track to it, and emits exactly one videoStateChange with the new value;
\* so the k-th toggle announces the original value when k is even, and after
\* two toggles (back-to-back included) flag and track are as at the start.
C25_VideoToggle ==
    /\ [][JustDid(Local, "click-video")'
          => /\ media'[Local].isVideoEnabled = ~media[Local].isVideoEnabled
             /\ LocalCapture'.video = media'[Local].isVideoEnabled
             /\ inbox'["B"] = Append(inbox["B"],
                    On(StateChange("remoteVideoStateChange", Local,
                                   media'[Local].isVideoEnabled),
                       socket["B"]))]_vars
    /\ [](LET sent == Announced("B", "remoteVideoStateChange")
          IN  /\ media[Local].isVideoEnabled = (Len(sent) % 2 = 0)
              /\ LocalCapture.video = media[Local].isVideoEnabled
              /\ \A k \in 1..Len(sent) : sent[k].flag = (k % 2 = 0))

\* two toggles in a row: off and on again, one announcement each
C25_Witness ==
    /\ events = 2
    /\ JustDid(Local, "click-video")
    /\ media[Local].isVideoEnabled
    /\ LocalCapture.video
    /\ Len(inbox["B"]) = 2
    /\ inbox["B"][1].type = "remoteVideoStateChange" /\ ~inbox["B"][1].flag
    /\ inbox["B"][2].type = "remoteVideoStateChange" /\ inbox["B"][2].flag


\* the step just taken was a click on one of the media controls
JustToggled == JustDid(Local, "click-mute") \/ JustDid(Local, "click-video")

\* the signaling messages the relay has passed on to X
Signaling(X) ==
    SelectSeq(inbox[X], LAMBDA m : m.type \in {"offer", "answer", "ice-candidate"})

\* C26: toggleMute and toggleVideo leave negotiation alone: no offer, answer
\* or candidate is emitted, no connection is made or closed, and the peer
\* map holds the same connections in the same state.
C26_NoRenegotiation ==
    [][JustToggled'
       => /\ conns' = conns
          /\ peersRef' = peersRef
          /\ \A X \in Ids : Signaling(X)' = Signaling(X)]_vars

\* a control was clicked while the connection for B was in negotiation
C26_Witness ==
    /\ JustToggled
    /\ peersRef[Local]["B"] # NoConn
    /\ conns[peersRef[Local]["B"]].sig = "have-remote-offer"
    /\ conns[peersRef[Local]["B"]].chain # <<>>


----------------------------------------------------------------------------
(* Snapshots (MergeSpec) *)

\* C31: initial-video-states merges: every listed participant gets the
\* snapshot value as videoActive; one without an entry gets an entry with
\* no media handle and audioActive true, one with an entry keeps its media
\* handle and audioActive; the entries of the others are unchanged and no
\* entry is removed.
C31_VideoSnapshotMerge ==
    [][JustDid(Local, "initial-video-states")'
       => \A u \in Ids :
            IF u \in last'.msg.users
            THEN /\ Entry(u)'.present
                 /\ Entry(u)'.videoActive = (u \in last'.msg.on)
                 /\ IF Entry(u).present
                    THEN /\ Entry(u)'.stream = Entry(u).stream
                         /\ Entry(u)'.audioActive = Entry(u).audioActive
                    ELSE /\ Entry(u)'.stream = NoStream
                         /\ Entry(u)'.audioActive
            ELSE Entry(u)' = Entry(u)]_vars

\* the snapshot has just been merged into a collection in which B had a
\* media handle and audio off, and C had no entry
C31_Witness ==
    /\ JustDid(Local, "initial-video-states")
    /\ last.msg.users = {"B", "C"}
    /\ last.msg.on = {"C"}
    /\ Entry("B").stream # NoStream
    /\ ~Entry("B").audioActive
    /\ ~Entry("B").videoActive
    /\ Entry("C").present
    /\ Entry("C").stream = NoStream
    /\ Entry("C").videoActive


\* C32: from any state of the collection, initial-video-states followed by
\* initial-audio-states, and the two snapshots in the opposite order, end in
\* the same collection.
C32_SnapshotsCommute ==
    \A v \in SnapshotSets, a \in SnapshotSets :
        InitialAudioStates(InitialVideoStates(remoteVideos[Local], v[1], v[2]),
                           a[1], a[2])
        = InitialVideoStates(InitialAudioStates(remoteVideos[Local], a[1], a[2]),
                             v[1], v[2])

----------------------------------------------------------------------------
(* Properties of the MIDI specification (MidiSpec) *)

\* the step just taken handled a MIDI event of `kind`
MidiDid(kind) == midi.ev.kind = kind

\* C33: a local noteon / noteoff emits exactly one midi-message with the
\* current roomId, its type and its note when socket and roomId are there,
\* and none otherwise; a remote noteon adds exactly one note marked remote,
\* a remote noteoff releases the unreleased remote notes of that number and
\* no local note.
C33_MidiRelay ==
    /\ [][MidiDid("local")'
          => midi'.sent =
                IF midi.socket # NoSocket /\ midi.roomId # ""
                THEN Append(midi.sent, [socket |-> midi.socket,
                                        roomId |-> midi.roomId,
                                        type |-> midi'.ev.type,
                                        note |-> midi'.ev.note])
                ELSE midi.sent]_vars
    /\ [][MidiDid("remote")' /\ midi'.ev.type = "noteon"
          => /\ midi'.notes = Append(midi.notes, AnimatedNote(midi'.ev.note, FALSE))
             /\ midi'.sent = midi.sent]_vars
    /\ [][MidiDid("remote")' /\ midi'.ev.type = "noteoff"
          => /\ Len(midi'.notes) = Len(midi.notes)
             /\ \A k \in 1..Len(midi.notes) :
                  midi'.notes[k] =
                     IF /\ midi.notes[k].note = midi'.ev.note
                        /\ ~midi.notes[k].isLocal
                        /\ ~midi.notes[k].released
                     THEN [midi.notes[k] EXCEPT !.released = TRUE]
                     ELSE midi.notes[k]
             /\ midi'.sent = midi.sent]_vars


\* C34: the inputs carry only listeners of the run of the setup effect that
\* is in force (none once the visualizer is unmounted), and never the
\* listeners of two runs.
C34_ListenerPairing ==
    /\ \A e \in midi.listeners : midi.effects[e].live
    /\ ~midi.mounted => midi.listeners = {}
    /\ Cardinality(midi.listeners) <= 1

----------------------------------------------------------------------------
(* Participant count (Spec) *)

\* the participants the peer map of client i has a connection for
PeerIds(i) == {u \in Ids : peersRef[i][u] # NoConn}

\* C35: while joined, the participant count is one more than the number of
\* connections in the peer map.
C35_CountMatchesPeers ==
    joined[Local] => participantCount[Local] = 1 + Cardinality(PeerIds(Local))

----------------------------------------------------------------------------
(* Captures (RoomSpec) *)

\* the captures of client i whose tracks are live
LiveCaptures(i) == {k \in 1..Len(captures) : captures[k].owner = i /\ captures[k].live}

\* C36: at most one capture of a client has live tracks, and it is the one
\* the session refers to.
C36_NoCaptureLeak ==
    \A i \in Ids :
        /\ Cardinality(LiveCaptures(i)) <= 1
        /\ LiveCaptures(i) \subseteq {localStreamRef[i]}

----------------------------------------------------------------------------
(* Properties of the cycle specification (CycleSpec) *)

----------------------------------------------------------------------------
(* Properties of the teardown and of the signaling channels (CycleSpec) *)

\* the step is a click on Create or Join
NextJoinClick == last'.msg.type \in {"click-join", "click-create"}

\* C38: after leaveRoom returns and until the next createRoom or joinRoom,
\* the session stays torn down.  Checked for the step that follows
\* leaveRoom: unless it is a click on Create or Join, joined stays false,
\* the peer map and the collection stay empty and no capture track is live
\* after it, whatever continuation or callback the step runs.
C38_StaysTornDown ==
    [][(JustDid(Local, "click-leave") /\ ~NextJoinClick)
       => /\ ~joined'[Local]
          /\ NoPeers(Local)'
          /\ NoEntries(Local)'
          /\ LiveCaptures(Local)' = {}]_vars


\* the step is the continuation of a joinRoom of client i that held a
\* stream: it has emitted join-room on the socket of its closure
EmitsJoin(i, s) ==
    /\ JustDid(i, "media-granted")'
    /\ \E k \in 1..Len(calls[i]) :
           /\ calls[i][k].pc = "media"
           /\ calls[i][k].sock = s
           /\ calls'[i] = RemoveAt(calls[i], k)

\* C39: a join flow emits check-room and join-room on the signaling channel
\* that carries the session event handlers, which is the socket the client
\* holds: the socket a call has just emitted check-room and subscribed on,
\* and the socket a call emits join-room on, is that one, also when the
\* call found its socket not connected and made a new one.
C39_EmitsOnHandledChannel ==
    [][/\ Subscribed(Local)
          => calls'[Local][Len(calls'[Local])].sock = socket'[Local]
       /\ JustDid(Local, "media-granted")'
          => EmitsJoin(Local, socket'[Local])]_vars


\* the signaling channels of client i that are open: connecting or connected
OpenSockets(i) ==
    {s \in 1..Len(sockets) :
        sockets[s].owner = i /\ sockets[s].state \in {"connecting", "connected"}}

\* C40: at most one signaling channel of the client is open at any time:
\* every initializeSocket (from createRoom / joinRoom on a channel that is
\* not connected, from the timer of leaveRoom) disconnects the channel made
\* before it opens a new one.
C40_OneOpenChannel == Cardinality(OpenSockets(Local)) <= 1

====
